---------------------------- MODULE Spec2Model ----------------------------
(***************************************************************************)
(* A model of the code-bundler core: the filter predicates, the tree-file  *)
(* (manifest) writer and parser, combine_from_filelist, and the watchdog   *)
(* event handlers.                                                         *)
(*                                                                         *)
(* Text is modelled character by character: a Python str is a sequence of  *)
(* one-character strings, so that slicing, substring search, strip, lower  *)
(* and split are computed as Python computes them.  A text file is the     *)
(* sequence of its lines (no modelled name contains a line break).         *)
(***************************************************************************)
EXTENDS Integers, Sequences, FiniteSets, TLC

VARIABLES
    \* ---- file system and selection criteria
    files,          \* the regular files below source_dir: path -> "text" (readable
                    \* UTF-8), "binary" (not UTF-8) or "locked" (cannot be read)
    dirs,           \* the directories below source_dir
    extensions,     \* criteria: list of extensions
    ignore_names,   \* criteria: list of keywords
    ignore_paths,   \* criteria: list of keywords
    include_names,  \* criteria: list of keywords
    \* ---- core/tree.py
    tree_file,      \* the tree file (manifest) on disk
    walked,         \* the lines walk_tree appended at the last export
    file_count,     \* the value generate_tree_file returned
    edits,          \* lines deleted by hand from the tree file since it was written
    parsed,         \* the tuple parse_tree_file returned
    exported,       \* the arguments of the last call of generate_tree_file
    \* ---- core/combiner.py
    out_disk,       \* the destination file on disk
    combine_args,   \* the arguments and source tree of the last combine call
    processed_count,\* the value the last combine call returned
    prev_run,       \* whether the call before the last had the same arguments and
                    \* source tree, and the destination the last call found
    \* ---- utils/watcher.py, cli/commands.py: setup_watch_mode
    wiring,         \* "lib": utils.watcher.CodeBundlerHandler with a caller's
                    \* callback; "cli": the handler and rebuild of setup_watch_mode
    use_tree,       \* handler configuration
    filelist,       \* handler configuration
    last_run,       \* handler field
    last_changed_file, \* handler field (utils handler only)
    now,            \* time.time(), in ticks of 100 ms
    queue,          \* the observer's event queue
    obs_pc,         \* the observer thread: "idle", "callback" or "dead"
    rebuilds,       \* callback invocations that have not returned yet
    handled,        \* the last event the handler was given, and what it did
    disp,           \* when and for which file the callback was last invoked
    failures,       \* 1 once an invocation of the callback has failed
    \* ---- core/filters.py called on its own
    call,           \* the last call of a filter predicate: function and arguments
    result,         \* the value that call returned, and the value of the same
                    \* call with the ignore lists extended
    \* ---- cli/commands.py: main
    cli,            \* the last run of main: arguments, exit code, what it did
    \* ---- tui: CodeBundlerApp, DirectoryTree, create_bundle
    directory_tree, \* DirectoryTree: the data of its nodes, selected_files
    app,            \* CodeBundlerApp: its configuration, selected_files
    messages,       \* FileSelected messages posted and not yet handled
    workers,        \* rebuild_bundle workers started and not yet run
    tui             \* the last handler that ran, and what it did

fsVars == << files, dirs >>
critVars == << extensions, ignore_names, ignore_paths, include_names >>
treeVars == << tree_file, walked, file_count, edits, parsed, exported >>
combineVars == << out_disk, combine_args, processed_count, prev_run >>
watchVars == << wiring, use_tree, filelist, last_run, last_changed_file, now, queue,
                obs_pc, rebuilds, handled, disp, failures >>

callVars == << call, result >>
cliVars == << cli >>
tuiVars == << directory_tree, app, messages, workers, tui >>

vars == << fsVars, critVars, treeVars, combineVars, watchVars, callVars, cliVars,
          tuiVars >>

-----------------------------------------------------------------------------
(* Python str operations, on sequences of one-character strings.           *)

\* The characters of the model in code-point order (str comparison, sorted()).
\* The last four are the box-drawing characters of the tree file: U+2500
\* (horizontal), U+2502 (vertical), U+2514 (up and right), U+251C (vertical and
\* right).
CodeTable ==
    << " ", "#", "(", ")", ",", ".", "/", ":",
       "A", "B", "C", "D", "E", "F", "G", "H", "I", "J", "K", "L", "M",
       "N", "O", "P", "Q", "R", "S", "T", "U", "V", "W", "X", "Y", "Z", "_",
       "a", "b", "c", "d", "e", "f", "g", "h", "i", "j", "k", "l", "m",
       "n", "o", "p", "q", "r", "s", "t", "u", "v", "w", "x", "y", "z",
       "BOX_H", "BOX_V", "BOX_UR", "BOX_VR" >>

CodeOf == [c \in {CodeTable[i] : i \in 1..Len(CodeTable)} |->
             CHOOSE i \in 1..Len(CodeTable) : CodeTable[i] = c]

Code(c) == CodeOf[c]

\* str.lower() of one character: 'A'..'Z' map to 'a'..'z', 26 places further on
\* in CodeTable after the '_' between them; every other character is unchanged.
LowerOf == [c \in DOMAIN CodeOf |->
              IF CodeOf[c] >= CodeOf["A"] /\ CodeOf[c] <= CodeOf["Z"]
              THEN CodeTable[CodeOf[c] + 27] ELSE c]

LowerChar(c) == LowerOf[c]

Lower(s) == [i \in 1..Len(s) |-> LowerChar(s[i])]

\* s[a:b] with 1-based inclusive bounds; empty when a > b.
Slice(s, a, b) == IF a > b THEN << >> ELSE SubSeq(s, a, b)

StartsWith(s, p) == Len(p) <= Len(s) /\ SubSeq(s, 1, Len(p)) = p

EndsWith(s, p) == Len(p) <= Len(s) /\ SubSeq(s, Len(s) - Len(p) + 1, Len(s)) = p

\* The positions at which k occurs in s.
Occurrences(k, s) == {i \in 1..(Len(s) - Len(k) + 1) : SubSeq(s, i, i + Len(k) - 1) = k}

\* `k in s`: the empty keyword is in every string.
Contains(s, k) == Len(k) = 0 \/ Occurrences(k, s) # {}

\* s.find(k) and s.rfind(k), 0 when absent (Python: -1, positions 0-based).
Find(s, k) == LET occ == Occurrences(k, s) IN
              IF occ = {} THEN 0 ELSE CHOOSE i \in occ : \A j \in occ : i <= j

RFind(s, k) == LET occ == Occurrences(k, s) IN
               IF occ = {} THEN 0 ELSE CHOOSE i \in occ : \A j \in occ : i >= j

\* str.strip(): the only whitespace of the model is the blank.
Strip(s) ==
    LET keep == {i \in 1..Len(s) : s[i] # " "} IN
    IF keep = {} THEN << >>
    ELSE Slice(s, CHOOSE i \in keep : \A j \in keep : i <= j,
                  CHOOSE i \in keep : \A j \in keep : i >= j)

\* s.split(sep, 1)[-1]: what follows the first occurrence of sep, or s itself.
AfterFirst(s, sep) ==
    LET at == Find(s, sep) IN IF at = 0 THEN s ELSE Slice(s, at + Len(sep), Len(s))

\* s < t in Python's str order.
RECURSIVE StrLess(_, _)
StrLess(s, t) ==
    IF Len(t) = 0 THEN FALSE
    ELSE IF Len(s) = 0 THEN TRUE
    ELSE IF s[1] # t[1] THEN Code(s[1]) < Code(t[1])
    ELSE StrLess(Tail(s), Tail(t))

\* A variant of Sorted: sorted(S, reverse=True).
RECURSIVE SortedDescending(_)
SortedDescending(S) ==
    IF S = {} THEN << >>
    ELSE LET m == CHOOSE x \in S : \A y \in S \ {x} : StrLess(y, x)
         IN << m >> \o SortedDescending(S \ {m})

\* sorted(S) for a set of strings.
RECURSIVE Sorted(_)
Sorted(S) ==
    IF S = {} THEN << >>
    ELSE LET m == CHOOSE x \in S : \A y \in S \ {x} : StrLess(x, y)
         IN << m >> \o Sorted(S \ {m})

\* sep.join(parts)
RECURSIVE Join(_, _)
Join(sep, parts) ==
    IF Len(parts) = 0 THEN << >>
    ELSE IF Len(parts) = 1 THEN parts[1]
    ELSE parts[1] \o sep \o Join(sep, Tail(parts))

\* os.path.splitext(p)[1] (posixpath/genericpath._splitext): the suffix from the
\* last dot of the last path component, unless that component has only leading dots
\* before it.
SplitExt(p) ==
    LET sepIndex == RFind(p, << "/" >>)
        dotIndex == RFind(p, << "." >>)
    IN IF dotIndex > sepIndex
          /\ \E f \in (sepIndex + 1)..(dotIndex - 1) : p[f] # "."
       THEN Slice(p, dotIndex, Len(p))
       ELSE << >>

\* os.path.basename(p)
Basename(p) == Slice(p, RFind(p, << "/" >>) + 1, Len(p))

-----------------------------------------------------------------------------
(* core/filters.py                                                         *)

\* A variant of has_matching_extension that compares without lower().
has_matching_extension_cased(filename, exts) ==
    IF Len(exts) = 0 THEN TRUE
    ELSE \E i \in 1..Len(exts) : SplitExt(filename) = exts[i]

\* A variant of should_ignore in which the last keyword of each list decides.
should_ignore_last_keyword(filename, rel_path, ign_names, ign_paths) ==
    \/ Len(ign_names) > 0 /\ Contains(filename, ign_names[Len(ign_names)])
    \/ Len(ign_paths) > 0 /\ Contains(rel_path, ign_paths[Len(ign_paths)])

has_matching_extension(filename, exts) ==
    IF Len(exts) = 0 THEN TRUE
    ELSE \E i \in 1..Len(exts) : Lower(SplitExt(filename)) = Lower(exts[i])

should_include(filename, incl) ==
    IF Len(incl) = 0 THEN TRUE
    ELSE \E i \in 1..Len(incl) : Contains(filename, incl[i])

should_ignore(filename, rel_path, ign_names, ign_paths) ==
    \/ \E i \in 1..Len(ign_names) : Contains(filename, ign_names[i])
    \/ \E i \in 1..Len(ign_paths) : Contains(rel_path, ign_paths[i])

\* extensions: Union[str, List[str]]
StrArg(s) == [is_str |-> TRUE, str |-> s, list |-> << >>]
ListArg(l) == [is_str |-> FALSE, str |-> << >>, list |-> l]

\* `not extensions`: the empty list and the empty str are falsy.
NotExtensions(arg) == IF arg.is_str THEN arg.str = << >> ELSE arg.list = << >>

\* The extensions an argument lists, a str standing for the one-element list.
Listed(arg) == IF arg.is_str THEN << arg.str >> ELSE arg.list

\* The composition every caller spells out: extension, then ignore, then include.
Accepted(filename, rel_path, exts, ign_names, ign_paths, incl) ==
    /\ has_matching_extension(filename, exts)
    /\ ~should_ignore(filename, rel_path, ign_names, ign_paths)
    /\ should_include(filename, incl)

-----------------------------------------------------------------------------
(* The file system below source_dir, and the names of the model.           *)

\* Python's None where a str is expected: a value no str of the model equals.
None == << "None" >>

\* A text file that does not exist, one holding the given lines, and one that
\* holds bytes that are not UTF-8 somewhere after the given lines.
NoFile == [exists |-> FALSE, lines |-> << >>, decodes |-> TRUE]
TextFile(lines) == [exists |-> TRUE, lines |-> lines, decodes |-> TRUE]
BadFile(lines) == [exists |-> TRUE, lines |-> lines, decodes |-> FALSE]

SourceDir ==
    << "/", "r" >>
OutputName ==
    << "o", "u", "t", ".", "p", "y" >>
ExtPy ==
    << ".", "p", "y" >>
ExtMd ==
    << ".", "m", "d" >>
KwTest ==
    << "t", "e", "s", "t" >>
KwLib ==
    << "l", "i", "b", "/" >>
KwM ==
    << "m" >>

NameA ==
    << "a", ".", "p", "y" >>
NameB ==
    << "b", ".", "m", "d" >>
NameLib ==
    << "l", "i", "b" >>
NameTest ==
    << "t", "e", "s", "t" >>
NameM ==
    << "m", ".", "p", "y" >>
NameT ==
    << "t", ".", "p", "y" >>
NameX ==
    << "x", ".", "P", "Y" >>

\* The files a source tree of the model may hold, as sequences of names from
\* source_dir down: a.py, b.md, lib/m.py, test/t.py, lib/test/x.PY.
FileUniverse ==
    { << NameA >>, << NameB >>, << NameLib, NameM >>, << NameTest, NameT >>,
      << NameLib, NameTest, NameX >> }

\* The proper ancestors of the paths of P.
Ancestors(P) == UNION {{SubSeq(p, 1, k) : k \in 1..(Len(p) - 1)} : p \in P}

ExtChoices == { << >>, << ExtPy >>, << ExtPy, ExtMd >> }
IgnoreNameChoices == { << >>, << KwTest >> }
IgnorePathChoices == { << >>, << KwLib >> }
IncludeChoices == { << >>, << KwM >> }

\* os.path.relpath(os.path.join(..., entry), source_dir).replace("\\", "/") of a
\* path below source_dir: its names joined by "/".
RelPath(path) == Join(<< "/" >>, path)

RelPaths(P) == {RelPath(p) : p \in P}

\* os.listdir(current_path): the names directly below a directory.
ListDir(current) ==
    {p[Len(current) + 1] : p \in {q \in DOMAIN files \cup dirs :
        Len(q) = Len(current) + 1 /\ SubSeq(q, 1, Len(current)) = current}}

\* os.path.isfile
IsFile(path) == path \in DOMAIN files

-----------------------------------------------------------------------------
(* core/tree.py: generate_tree_file                                        *)

ConnLast ==
    << "BOX_UR", "BOX_H", "BOX_H", " " >>
ConnMid ==
    << "BOX_VR", "BOX_H", "BOX_H", " " >>
PrefixLast ==
    << " ", " ", " ", " " >>
PrefixMid ==
    << "BOX_V", " ", " ", " " >>
Marker ==
    << "BOX_H", "BOX_H" >>
HdrSource ==
    << "#", " ", "S", "o", "u", "r", "c", "e", " ", "D", "i", "r", "e", "c",
       "t", "o", "r", "y", ":", " " >>
HdrOutput ==
    << "#", " ", "O", "u", "t", "p", "u", "t", " ", "F", "i", "l", "e", ":",
       " " >>
HdrExts ==
    << "#", " ", "E", "x", "t", "e", "n", "s", "i", "o", "n", "s", ":", " " >>
HdrStrip ==
    << "#", " ", "S", "t", "r", "i", "p", " ", "C", "o", "m", "m", "e", "n",
       "t", "s", ":", " " >>
HdrDoc ==
    << "#", " ", "R", "e", "m", "o", "v", "e", " ", "D", "o", "c", "s", "t",
       "r", "i", "n", "g", "s", ":", " " >>
HdrProposed ==
    << "#", " ", "P", "r", "o", "p", "o", "s", "e", "d", " ", "i", "n", "c",
       "l", "u", "s", "i", "o", "n", " ", "l", "i", "s", "t", " ", "f", "o",
       "r", " ", "f", "i", "l", "e", "s", " ", "w", "i", "t", "h", " ", "e",
       "x", "t", "e", "n", "s", "i", "o", "n", "s", ":", " " >>
HdrDelete ==
    << "#", " ", "D", "e", "l", "e", "t", "e", " ", "o", "r", " ", "c", "o",
       "m", "m", "e", "n", "t", " ", "o", "u", "t", " ", "a", "n", "y", " ",
       "l", "i", "n", "e", "s", " ", "f", "o", "r", " ", "f", "i", "l", "e",
       "s", " ", "y", "o", "u", " ", "w", "a", "n", "t", " ", "t", "o", " ",
       "e", "x", "c", "l", "u", "d", "e", "." >>
HdrDirs ==
    << "#", " ", "L", "i", "n", "e", "s", " ", "f", "o", "r", " ", "d", "i",
       "r", "e", "c", "t", "o", "r", "i", "e", "s", " ", "a", "r", "e", " ",
       "i", "g", "n", "o", "r", "e", "d", " ", "w", "h", "e", "n", " ", "c",
       "o", "m", "b", "i", "n", "i", "n", "g", " ", "(", "o", "n", "l", "y",
       " ", "f", "i", "l", "e", "s", " ", "m", "a", "t", "t", "e", "r", ")",
       "." >>
Yes ==
    << "y", "e", "s" >>
No ==
    << "n", "o" >>
CommaSpace ==
    << ",", " " >>

YesNo(b) == IF b THEN Yes ELSE No

\* A variant of EntryLine that writes the entry's own name, not its relative path.
EntryLineBasename(prefix, connector, rel_path, entry) == prefix \o connector \o entry

\* lines.append(f"{prefix}{connector}{rel_path}")
EntryLine(prefix, connector, rel_path, entry) == prefix \o connector \o rel_path

\* A variant of AfterDirectory that counts the line of the directory as well.
AfterDirectoryCounted(line, sub) ==
    [lines |-> << line >> \o sub.lines, file_count |-> sub.file_count + 1]

\* A listed directory: its line, then what the recursive call appends and
\* counts; the line of the directory itself is not counted.
AfterDirectory(line, sub) ==
    [lines |-> << line >> \o sub.lines, file_count |-> sub.file_count]

\* walk_tree: the lines appended for the entries i.. of one directory, in order,
\* and what is added to file_count on the way.  Each appended line is kept with
\* the path it names and whether it is a file.
RECURSIVE walk_entries(_, _, _, _)
walk_entries(current, prefix, entries, i) ==
    IF i > Len(entries) THEN [lines |-> << >>, file_count |-> 0]
    ELSE
      LET entry == entries[i]
          full_path == Append(current, entry)
          rel_path == RelPath(full_path)
          last == (i = Len(entries))
          connector == IF last THEN ConnLast ELSE ConnMid
          line == [text |-> EntryLine(prefix, connector, rel_path, entry),
                   rel |-> rel_path, is_file |-> IsFile(full_path)]
          nothing == [lines |-> << >>, file_count |-> 0]
          here ==
            IF IsFile(full_path)
            THEN IF /\ has_matching_extension(entry, extensions)
                    /\ ~should_ignore(entry, rel_path, ignore_names, ignore_paths)
                    /\ should_include(entry, include_names)
                 THEN [lines |-> << line >>, file_count |-> 1] ELSE nothing
            ELSE IF ~should_ignore(entry, rel_path, ignore_names, ignore_paths)
                 THEN AfterDirectory(line,
                          walk_entries(full_path,
                                       prefix \o (IF last THEN PrefixLast ELSE PrefixMid),
                                       Sorted(ListDir(full_path)), 1))
                 ELSE nothing
          rest == walk_entries(current, prefix, entries, i + 1)
      IN [lines |-> here.lines \o rest.lines,
          file_count |-> here.file_count + rest.file_count]

walk_tree(current, prefix) == walk_entries(current, prefix, Sorted(ListDir(current)), 1)

\* The lines of the tree file: the header, a blank line, "\n".join(lines).
TreeFileText(lines, output_file, remove_comments, remove_docstrings) ==
    << HdrSource \o SourceDir >>
    \o (IF output_file # None THEN << HdrOutput \o output_file >> ELSE << >>)
    \o << HdrExts \o Join(CommaSpace, extensions),
          HdrStrip \o YesNo(remove_comments),
          HdrDoc \o YesNo(remove_docstrings),
          HdrProposed \o Join(CommaSpace, extensions),
          HdrDelete,
          HdrDirs,
          << >> >>
    \o [k \in 1..Len(lines) |-> lines[k].text]

\* What generate_tree_file writes and returns; `lines` is kept for the claims.
generate_tree_file(output_file, remove_comments, remove_docstrings) ==
    LET walk == walk_tree(<< >>, << >>) IN
    [lines |-> walk.lines,
     file_count |-> walk.file_count,
     written |-> TextFile(TreeFileText(walk.lines, output_file, remove_comments,
                                       remove_docstrings))]

-----------------------------------------------------------------------------
(* core/tree.py: parse_tree_file                                           *)

KeySource ==
    << "#", " ", "s", "o", "u", "r", "c", "e", " ", "d", "i", "r", "e", "c",
       "t", "o", "r", "y", ":" >>
KeyOutput ==
    << "#", " ", "o", "u", "t", "p", "u", "t", " ", "f", "i", "l", "e", ":" >>
KeyExts ==
    << "#", " ", "e", "x", "t", "e", "n", "s", "i", "o", "n", "s", ":" >>
KeyExt ==
    << "#", " ", "e", "x", "t", "e", "n", "s", "i", "o", "n", ":" >>
KeyStrip ==
    << "#", " ", "s", "t", "r", "i", "p", " ", "c", "o", "m", "m", "e", "n",
       "t", "s", ":" >>
KeyDoc ==
    << "#", " ", "r", "e", "m", "o", "v", "e", " ", "d", "o", "c", "s", "t",
       "r", "i", "n", "g", "s", ":" >>

\* Optional[bool]: "None", "True" or "False".
OptBool(b) == IF b THEN "True" ELSE "False"

\* The locals of parse_tree_file before the first line is read.
ParseStart ==
    [source_dir |-> None, output_file |-> None, extensions |-> << >>,
     remove_comments |-> "None", remove_docstrings |-> "None",
     included_paths |-> << >>]

NotParsed == [done |-> FALSE, result |-> ParseStart]

\* s.split(sep)
RECURSIVE Split(_, _)
Split(s, sep) ==
    LET at == Find(s, sep) IN
    IF at = 0 THEN << s >>
    ELSE << Slice(s, 1, at - 1) >> \o Split(Slice(s, at + Len(sep), Len(s)), sep)

\* [ext.strip() for ext in exts_str.split(",") if ext.strip()]
StrippedNonEmpty(parts) ==
    SelectSeq([k \in 1..Len(parts) |-> Strip(parts[k])], LAMBDA e : Len(e) > 0)

\* A variant of HeaderValue that keeps the blanks around the value.
HeaderValueRaw(stripped) == AfterFirst(stripped, << ":" >>)

\* stripped.split(":", 1)[1].strip()
HeaderValue(stripped) == Strip(AfterFirst(stripped, << ":" >>))

\* The body of the loop over the lines of the file.
parse_line(acc, line) ==
    LET stripped == Strip(line)
        lower == Lower(stripped)
    IN
    IF Len(stripped) = 0 THEN acc
    ELSE IF StartsWith(stripped, << "#" >>) THEN
        IF StartsWith(lower, KeySource)
            THEN [acc EXCEPT !.source_dir = HeaderValue(stripped)]
        ELSE IF StartsWith(lower, KeyOutput)
            THEN [acc EXCEPT !.output_file = HeaderValue(stripped)]
        ELSE IF StartsWith(lower, KeyExts)
            THEN [acc EXCEPT !.extensions =
                     StrippedNonEmpty(Split(HeaderValue(stripped), << "," >>))]
        ELSE IF StartsWith(lower, KeyExt)
            THEN IF Len(HeaderValue(stripped)) > 0
                 THEN [acc EXCEPT !.extensions = << HeaderValue(stripped) >>]
                 ELSE acc
        ELSE IF StartsWith(lower, KeyStrip)
            THEN [acc EXCEPT !.remove_comments =
                     OptBool(Lower(HeaderValue(stripped)) = Yes)]
        ELSE IF StartsWith(lower, KeyDoc)
            THEN [acc EXCEPT !.remove_docstrings =
                     OptBool(Lower(HeaderValue(stripped)) = Yes)]
        ELSE acc
    ELSE IF Contains(stripped, Marker)
        THEN [acc EXCEPT !.included_paths =
                 Append(@, Strip(AfterFirst(stripped, Marker)))]
    ELSE acc

\* A variant of parse_lines that reads the lines from the last to the first.
RECURSIVE parse_lines_backwards(_, _, _)
parse_lines_backwards(acc, lines, i) ==
    IF i > Len(lines) THEN acc
    ELSE parse_lines_backwards(parse_line(acc, lines[Len(lines) + 1 - i]), lines, i + 1)

RECURSIVE parse_lines(_, _, _)
parse_lines(acc, lines, i) ==
    IF i > Len(lines) THEN acc
    ELSE parse_lines(parse_line(acc, lines[i]), lines, i + 1)

\* A variant of parse_tree_file that returns what it had parsed when the
\* error occurred.
parse_tree_file_partial(f) ==
    IF ~f.exists THEN ParseStart ELSE parse_lines(ParseStart, f.lines, 1)

\* The tuple parse_tree_file returns for a tree file; a file that cannot be
\* opened, or that raises UnicodeDecodeError while it is read, gives the
\* all-empty tuple of the except clause.
parse_tree_file(f) ==
    IF ~f.exists \/ ~f.decodes THEN ParseStart ELSE parse_lines(ParseStart, f.lines, 1)

-----------------------------------------------------------------------------
(* core/combiner.py: combine_from_filelist                                 *)

ExtTxt ==
    << ".", "t", "x", "t" >>

\* The path os.path.join(source_dir, rel_path) names, as names below source_dir.
PathOf(rel_path) == Split(rel_path, << "/" >>)

\* One write to the destination.  The comment prefix and the transformed lines
\* come from core/transformers.py; a chunk records the extension handed to
\* get_comment_prefix / apply_transformations and the flags, not their results.
Chunk(kind, ext, path, rc, rd) ==
    [kind |-> kind, ext |-> ext, path |-> path,
     remove_comments |-> rc, remove_docstrings |-> rd]

\* outfile.write(f"{comment_prefix} Files combined from the manually edited tree.\n\n")
HeaderChunk(exts) ==
    Chunk("header", IF Len(exts) > 0 THEN exts[1] ELSE ExtTxt, << >>, FALSE, FALSE)

\* A variant of combine_step that counts a file as soon as it is found, before
\* it is read.
combine_step_count_found(acc, rel_path, exts, rc, rd) ==
    IF ~has_matching_extension(rel_path, exts) THEN acc
    ELSE IF ~IsFile(PathOf(rel_path)) THEN acc
    ELSE IF files[PathOf(rel_path)] # "text"
         THEN [acc EXCEPT !.processed_count = @ + 1]
    ELSE LET file_extension == SplitExt(rel_path) IN
         [chunks |-> acc.chunks
                     \o << Chunk("begin", file_extension, rel_path, FALSE, FALSE),
                           Chunk("lines", file_extension, rel_path, rc, rd),
                           Chunk("end", file_extension, rel_path, FALSE, FALSE) >>,
          processed_count |-> acc.processed_count + 1]

\* The body of the loop over filelist: acc is (what was written, processed_count).
combine_step(acc, rel_path, exts, rc, rd) ==
    IF ~has_matching_extension(rel_path, exts) THEN acc
    ELSE IF ~IsFile(PathOf(rel_path)) THEN acc
    ELSE IF files[PathOf(rel_path)] # "text" THEN acc
    ELSE LET file_extension == SplitExt(rel_path) IN
         [chunks |-> acc.chunks
                     \o << Chunk("begin", file_extension, rel_path, FALSE, FALSE),
                           Chunk("lines", file_extension, rel_path, rc, rd),
                           Chunk("end", file_extension, rel_path, FALSE, FALSE) >>,
          processed_count |-> acc.processed_count + 1]

RECURSIVE combine_loop(_, _, _, _, _, _)
combine_loop(acc, flist, i, exts, rc, rd) ==
    IF i > Len(flist) THEN acc
    ELSE combine_loop(combine_step(acc, flist[i], exts, rc, rd), flist, i + 1,
                      exts, rc, rd)

\* A variant of OpenForWrite that opens the destination for appending.
OpenForAppend(old) == old

\* open(output_file, "w"): the destination is truncated, whatever it held.
OpenForWrite(old) == << >>

\* A variant of IterationOrder: for rel_path in sorted(set(filelist)).
IterationSorted(flist) == Sorted({flist[k] : k \in 1..Len(flist)})

\* for rel_path in filelist
IterationOrder(flist) == flist

\* What combine_from_filelist leaves in the destination, and what it returns.
combine_from_filelist(old, exts, flist, rc, rd) ==
    combine_loop([chunks |-> OpenForWrite(old) \o << HeaderChunk(exts) >>,
                  processed_count |-> 0],
                 IterationOrder(flist), 1, exts, rc, rd)

-----------------------------------------------------------------------------
(* utils/watcher.py: CodeBundlerHandler, and the handler setup_watch_mode   *)
(* defines in cli/commands.py.  Time is counted in ticks of 100 ms.         *)

\* self.debounce_time = 0.5 seconds
DebounceTime == 5

\* time.time() counts from the epoch: when the handler is built, last_run = 0
\* lies at least one debounce window in the past.
StartTime == DebounceTime

\* Ticks the model follows the watcher for, and events waiting in the
\* observer's queue.
MaxTime == 6
MaxQueue == 1

\* Events of one burst that are counted.
MaxBurst == 3

\* The file the rebuild writes, below the watched directory: /r/out.py.
OutputPath == SourceDir \o << "/" >> \o OutputName

\* A watchdog event: a path below source_dir and whether it is a directory.
Event(path, is_dir) == [src_path |-> SourceDir \o << "/" >> \o RelPath(path),
                        is_directory |-> is_dir]

Events ==
    { Event(<< NameA >>, FALSE), Event(<< NameB >>, FALSE),
      Event(<< NameLib, NameM >>, FALSE), Event(<< OutputName >>, FALSE),
      Event(<< NameLib >>, TRUE) }

\* os.path.relpath(event.src_path, source_dir).replace("\\", "/") for a path
\* below source_dir.
EventRelPath(e) == Slice(e.src_path, Len(SourceDir) + 2, Len(e.src_path))

\* filelist is truthy: neither None nor empty.
Truthy(fl) == fl.some /\ Len(fl.items) > 0

\* `use_tree and filelist and rel_path not in filelist`
NotInTree(rel_path) ==
    use_tree /\ Truthy(filelist)
    /\ \A k \in 1..Len(filelist.items) : filelist.items[k] # rel_path

\* utils/watcher.py on_any_event, up to the debounce: TRUE when no filter returns.
PassesLib(e) ==
    /\ ~e.is_directory
    /\ has_matching_extension(e.src_path, extensions)
    /\ ~should_ignore(Basename(e.src_path), EventRelPath(e), ignore_names, ignore_paths)
    /\ should_include(Basename(e.src_path), include_names)
    /\ ~NotInTree(EventRelPath(e))

\* cli/commands.py on_any_event, up to the debounce; self.extension is a str.
PassesCli(e) ==
    /\ ~e.is_directory
    /\ EndsWith(e.src_path, extensions[1])
    /\ ~should_ignore(Basename(e.src_path), EventRelPath(e), ignore_names, ignore_paths)
    /\ should_include(Basename(e.src_path), include_names)
    /\ ~NotInTree(EventRelPath(e))

Passes(e) == IF wiring = "lib" THEN PassesLib(e) ELSE PassesCli(e)

\* `if current_time - self.last_run < self.debounce_time: return`
Debounced(current_time) == current_time - last_run < DebounceTime

\* A variant of NextLastRun that leaves the timestamp as it was.
NextLastRunStale(current_time) == last_run

\* self.last_run = current_time
NextLastRun(current_time) == current_time

\* A variant of StampedLastRun that takes the timestamp above the debounce
\* test, for every event that passes the filters.
StampedLastRunOnPass(go, passes, current_time) ==
    IF passes THEN NextLastRun(current_time) ELSE last_run

\* self.last_run after on_any_event: the assignment is below every return, so
\* only an event that goes on to the callback (go) sets it.
StampedLastRun(go, passes, current_time) ==
    IF go THEN NextLastRun(current_time) ELSE last_run

\* A variant of CallbackPc: the callback is started on a thread of its own and
\* on_any_event returns at once.
CallbackPcDetached == "idle"

\* self.callback(...) is an ordinary call: the observer thread is inside the
\* callback until it returns.
CallbackPc == "callback"

\* The file system reports a change: the emitter queues an event.
FsEvent(e) ==
    /\ Len(queue) < MaxQueue
    /\ queue' = Append(queue, e)
    /\ UNCHANGED << fsVars, critVars, callVars, cliVars, tuiVars, treeVars, combineVars, wiring, use_tree,
                    filelist, last_run, last_changed_file, now, obs_pc, rebuilds,
                    handled, disp, failures >>

Tick ==
    /\ now < StartTime + MaxTime
    /\ now' = now + 1
    /\ UNCHANGED << fsVars, critVars, callVars, cliVars, tuiVars, treeVars, combineVars, wiring, use_tree,
                    filelist, last_run, last_changed_file, queue, obs_pc, rebuilds,
                    handled, disp, failures >>

\* The observer thread takes the next event and calls on_any_event, which runs
\* up to the call of the callback.
OnAnyEvent ==
    /\ obs_pc = "idle"
    /\ queue # << >>
    /\ LET e == Head(queue)
           rel_path == EventRelPath(e)
           current_time == now
           passes == Passes(e)
           early == disp.any /\ now - disp.last < DebounceTime
           go == passes /\ ~Debounced(current_time)
       IN /\ queue' = Tail(queue)
          /\ handled' = [any |-> TRUE, event |-> e, passed |-> passes,
                         early |-> early, dispatched |-> go,
                         burst |-> IF go THEN 1
                                   ELSE IF passes /\ disp.any /\ now - disp.last <= 2
                                             /\ handled.burst >= 1
                                             /\ rel_path = disp.file
                                        THEN IF handled.burst < MaxBurst
                                             THEN handled.burst + 1 ELSE MaxBurst
                                   ELSE IF disp.any /\ now - disp.last <= 2
                                        THEN handled.burst ELSE 0]
          /\ last_run' = StampedLastRun(go, passes, current_time)
          /\ IF go
             THEN /\ last_changed_file' = IF wiring = "lib" THEN rel_path
                                          ELSE last_changed_file
                  /\ obs_pc' = CallbackPc
                  /\ rebuilds' = rebuilds + 1
                  /\ disp' = [any |-> TRUE, last |-> now, file |-> rel_path,
                              twice |-> disp.any, prev |-> disp.last]
             ELSE UNCHANGED << tuiVars, last_changed_file, obs_pc, rebuilds, disp >>
    /\ UNCHANGED << fsVars, critVars, callVars, cliVars, tuiVars, treeVars, combineVars, wiring, use_tree,
                    filelist, now, failures >>

\* The callback returns.
CallbackReturns ==
    /\ rebuilds > 0
    /\ rebuilds' = rebuilds - 1
    /\ obs_pc' = IF obs_pc = "callback" THEN "idle" ELSE obs_pc
    /\ UNCHANGED << fsVars, critVars, callVars, cliVars, tuiVars, treeVars, combineVars, wiring, use_tree,
                    filelist, last_run, last_changed_file, now, queue, handled,
                    disp, failures >>

\* The rebuild fails.  setup_watch_mode's rebuild catches the exception and
\* reports it.  CodeBundlerHandler calls a callback of its caller with no
\* try around it: the exception leaves on_any_event and ends the observer thread.
CallbackFails ==
    /\ rebuilds > 0
    /\ obs_pc = "callback"
    /\ rebuilds' = rebuilds - 1
    /\ failures' = 1
    /\ obs_pc' = IF wiring = "cli" THEN "idle" ELSE "dead"
    /\ UNCHANGED << fsVars, critVars, callVars, cliVars, tuiVars, treeVars, combineVars, wiring, use_tree,
                    filelist, last_run, last_changed_file, now, queue, handled,
                    disp >>

NoList == [some |-> FALSE, items |-> << >>]
ListOf(items) == [some |-> TRUE, items |-> items]

\* No callback has been invoked yet.
NotDispatched ==
    [any |-> FALSE, last |-> 0, file |-> << >>, twice |-> FALSE, prev |-> 0]

NotHandled ==
    [any |-> FALSE, event |-> Event(<< NameA >>, FALSE), passed |-> FALSE,
     early |-> FALSE, dispatched |-> FALSE, burst |-> 0]


\* No watcher is running.
WatchOff ==
    /\ wiring = "lib"
    /\ use_tree = FALSE
    /\ filelist = NoList
    /\ last_run = 0
    /\ last_changed_file = None
    /\ now = StartTime
    /\ queue = << >>
    /\ obs_pc = "idle"
    /\ rebuilds = 0
    /\ handled = NotHandled
    /\ disp = NotDispatched
    /\ failures = 0

-----------------------------------------------------------------------------
(* Bounds of the model.                                                    *)

\* Lines a human deletes from a tree file before it is parsed.
MaxEdits == 1

\* Entries of a tree file written by hand.
MaxEntries == 2

-----------------------------------------------------------------------------
(* The operations on the tree file and the destination.                    *)

NoOutput == [exists |-> FALSE, chunks |-> << >>]

\* A destination left by some earlier program.
OldOutput == [exists |-> TRUE, chunks |-> << Chunk("old", << >>, << >>, FALSE, FALSE) >>]

NoCall ==
    [called |-> FALSE, exts |-> << >>, flist |-> << >>, remove_comments |-> FALSE,
     remove_docstrings |-> FALSE, files |-> [p \in {} |-> "text"]]

\* No export yet.
NotExported ==
    [done |-> FALSE, extensions |-> ListArg(<< >>), output_file |-> None,
     remove_comments |-> FALSE, remove_docstrings |-> FALSE]

\* `if isinstance(extensions, str): extensions = [extensions]`: the arguments
\* generate_tree_file turns into the list `extensions` of the criteria.
ExtensionsArguments ==
    { ListArg(extensions) }
    \cup (IF Len(extensions) = 1 THEN { StrArg(extensions[1]) } ELSE {})

\* generate_tree_file(source_dir, tree_output_path, extensions, ignore_names,
\* ignore_paths, include_names, output_file, remove_comments, remove_docstrings)
ExportTree(output_file, rc, rd) ==
    /\ ~tree_file.exists
    /\ ~parsed.done
    /\ \E arg \in ExtensionsArguments :
         exported' = [done |-> TRUE, extensions |-> arg, output_file |-> output_file,
                      remove_comments |-> rc, remove_docstrings |-> rd]
    /\ LET r == generate_tree_file(output_file, rc, rd) IN
         /\ tree_file' = r.written
         /\ walked' = r.lines
         /\ file_count' = r.file_count
    /\ UNCHANGED << edits, parsed, fsVars, critVars, callVars, cliVars, tuiVars, combineVars, watchVars >>

\* A line of the tree file that names a file or a directory.
IsEntryLine(line) == ~StartsWith(Strip(line), << "#" >>) /\ Contains(Strip(line), Marker)

\* The editing affordance: a human deletes the k-th line, an entry line.
EditTreeFile(k) ==
    /\ tree_file.exists
    /\ ~parsed.done
    /\ edits < MaxEdits
    /\ k \in 1..Len(tree_file.lines)
    /\ IsEntryLine(tree_file.lines[k])
    /\ tree_file' = TextFile(SubSeq(tree_file.lines, 1, k - 1)
                             \o SubSeq(tree_file.lines, k + 1, Len(tree_file.lines)))
    /\ edits' = edits + 1
    /\ UNCHANGED << walked, file_count, parsed, exported, fsVars, critVars, callVars, cliVars, tuiVars, combineVars, watchVars >>

ParseTreeFile ==
    /\ ~parsed.done
    /\ parsed' = [done |-> TRUE, result |-> parse_tree_file(tree_file)]
    /\ UNCHANGED << tree_file, walked, file_count, edits, exported, fsVars, critVars, callVars, cliVars, tuiVars,
                    combineVars, watchVars >>

\* Some other program deletes a source file.
RemoveFile(p) ==
    /\ p \in DOMAIN files
    /\ files' = [q \in DOMAIN files \ {p} |-> files[q]]
    /\ UNCHANGED << dirs, critVars, callVars, cliVars, tuiVars, treeVars, combineVars, watchVars >>

\* combine_from_filelist(source_dir, output_file, extensions, filelist,
\* remove_comments, remove_docstrings) on the entries of the parsed tree file.
CombineFromFilelist ==
    /\ parsed.done
    /\ LET flist == parsed.result.included_paths
           rc == parsed.result.remove_comments = "True"
           rd == parsed.result.remove_docstrings = "True"
           args == [called |-> TRUE, exts |-> extensions, flist |-> flist,
                    remove_comments |-> rc, remove_docstrings |-> rd, files |-> files]
           r == combine_from_filelist(out_disk.chunks, extensions, flist, rc, rd)
       IN /\ out_disk' = [exists |-> TRUE, chunks |-> r.chunks]
          /\ processed_count' = r.processed_count
          /\ combine_args' = args
          /\ prev_run' = [same |-> (combine_args = args), out |-> out_disk]
    /\ UNCHANGED << fsVars, critVars, callVars, cliVars, tuiVars, treeVars, watchVars >>

-----------------------------------------------------------------------------
(* Specifications.                                                         *)

\* No filter predicate has been called on its own.
NoCallYet ==
    [op |-> "none", filename |-> << >>, rel_path |-> << >>,
     arg |-> [is_str |-> FALSE, str |-> << >>, list |-> << >>],
     ignore_names |-> << >>, ignore_paths |-> << >>,
     more_names |-> << >>, more_paths |-> << >>]

\* main has not run.
\* --ext is absent (None), or given as a str; a tree file supplies a list.
NoExt == [given |-> FALSE, arg |-> ListArg(<< >>)]
GivenExt(arg) == [given |-> TRUE, arg |-> arg]

\* The namespace parse_args returns for an empty command line.
NoArgv ==
    [source_dir |-> None, output_file |-> None, ext |-> NoExt,
     export_tree |-> None, use_tree |-> None, interactive |-> FALSE,
     strip_comments |-> "None", remove_docstrings |-> "None"]

\* main has not been called.
CliNotRun ==
    [ran |-> FALSE, argv |-> NoArgv, isatty |-> FALSE, answers |-> "enter",
     args |-> NoArgv, prompted |-> FALSE, filelist |-> << >>, returned |-> 0,
     errors |-> << >>, warnings |-> << >>, called |-> "none",
     out_before |-> NoOutput, tree_before |-> NoFile]

\* The TUI before it is started.
TuiOff ==
    /\ directory_tree = [mounted |-> FALSE, nodes |-> << >>, selected_files |-> {}]
    /\ app = [cwd |-> << >>, extension |-> << >>, hide_patterns |-> << >>,
              select_patterns |-> << >>, confirm_selection |-> TRUE,
              selected_files |-> {}, order |-> << >>, observer |-> "None"]
    /\ messages = << >>
    /\ workers = 0
    /\ tui = [op |-> "none", ops |-> 0, changes |-> 0, changed_file |-> << >>,
              rebuild |-> FALSE, created |-> FALSE]

NothingDone ==
    /\ TuiOff
    /\ call = NoCallYet
    /\ result = [value |-> FALSE, more |-> FALSE]
    /\ cli = CliNotRun
    /\ walked = << >>
    /\ file_count = 0
    /\ edits = 0
    /\ parsed = NotParsed
    /\ exported = NotExported
    /\ combine_args = NoCall
    /\ processed_count = 0
    /\ prev_run = [same |-> FALSE, out |-> NoOutput]

\* Export and parse: any source tree of readable files, any criteria.
Init ==
    /\ \E S \in SUBSET FileUniverse :
         /\ files = [p \in S |-> "text"]
         /\ dirs = Ancestors(S)
    /\ extensions \in ExtChoices
    /\ ignore_names \in IgnoreNameChoices
    /\ ignore_paths \in IgnorePathChoices
    /\ include_names \in IncludeChoices
    /\ tree_file = NoFile
    /\ out_disk = NoOutput
    /\ NothingDone
    /\ WatchOff

Next ==
    \/ \E output_file \in {None, OutputName}, rc \in BOOLEAN, rd \in BOOLEAN :
         ExportTree(output_file, rc, rd)
    \/ ParseTreeFile

Spec == Init /\ [][Next]_vars

\* A tree file written by hand: the extensions header and one line per entry.
HandWritten(entries) ==
    TextFile(<< HdrExts \o Join(CommaSpace, extensions) >>
             \o [k \in 1..Len(entries) |-> ConnMid \o entries[k]])

\* What a hand-written tree file may name: a.py, b.md, lib/m.py and the
\* directory lib.
EntryChoices == RelPaths({ << NameA >>, << NameB >>, << NameLib, NameM >>, << NameLib >> })

EntryLists == UNION {[1..n -> EntryChoices] : n \in 0..MaxEntries}

\* Combine: source files that may be missing, undecodable or unreadable, a
\* destination that may exist already, a tree file exported or written by hand.
InitCombine ==
    /\ \E fa \in {"absent", "text", "binary"}, fb \in {"absent", "text"},
          fm \in {"absent", "text", "locked"} :
         LET all == [p \in { << NameA >>, << NameB >>, << NameLib, NameM >> } |->
                       IF p = << NameA >> THEN fa
                       ELSE IF p = << NameB >> THEN fb ELSE fm]
         IN /\ files = [p \in {q \in DOMAIN all : all[q] # "absent"} |-> all[p]]
            /\ dirs = { << NameLib >> }
    /\ extensions \in ExtChoices
    /\ ignore_names = << >>
    /\ ignore_paths = << >>
    /\ include_names = << >>
    /\ tree_file \in {NoFile} \cup {HandWritten(l) : l \in EntryLists}
    /\ out_disk \in {NoOutput, OldOutput}
    /\ NothingDone
    /\ WatchOff

NextCombine ==
    \/ \E rc \in BOOLEAN : ExportTree(OutputName, rc, FALSE)
    \/ \E k \in 1..Len(tree_file.lines) : EditTreeFile(k)
    \/ ParseTreeFile
    \/ \E p \in FileUniverse : RemoveFile(p)
    \/ CombineFromFilelist

SpecCombine == InitCombine /\ [][NextCombine]_vars

-----------------------------------------------------------------------------
(* Claims about the tree file (Spec).                                      *)

\* The relative paths of the file lines and of the directory lines of the last
\* export.
MatchedFiles == {walked[k].rel : k \in {j \in 1..Len(walked) : walked[j].is_file}}
ListedDirs == {walked[k].rel : k \in {j \in 1..Len(walked) : ~walked[j].is_file}}

\* C1: after an export, a file of the source tree has a line in the tree file if
\* and only if the composition rule accepts the file's own name and relative
\* path (extension matches, not ignored, included), at every depth.
C1_ListedIffAccepted ==
    tree_file.exists =>
        \A p \in DOMAIN files :
            (RelPath(p) \in MatchedFiles)
            <=> Accepted(p[Len(p)], RelPath(p), extensions, ignore_names,
                         ignore_paths, include_names)

\* The precondition of the round trip: the tree was exported and then parsed,
\* and holds at least one matching and one non-matching file.
RoundTripCase ==
    /\ tree_file.exists
    /\ parsed.done
    /\ MatchedFiles # {}
    /\ \E p \in DOMAIN files : RelPath(p) \notin MatchedFiles

ParsedEntries == {parsed.result.included_paths[k] :
                    k \in 1..Len(parsed.result.included_paths)}

\* C2 as stated: the entries parse_tree_file returns for an exported tree file
\* are, as a set, the files the export matched; directories are never entries.
C2_RoundTripFilesOnly == RoundTripCase => ParsedEntries = MatchedFiles

\* C2 amended: the entries are the matched files together with the directories
\* the export listed; the entries that name files are exactly the matched files.
C2_RoundTripWithDirs ==
    RoundTripCase =>
        /\ ParsedEntries = MatchedFiles \cup ListedDirs
        /\ {e \in ParsedEntries : IsFile(PathOf(e))} = MatchedFiles

\* A round trip over a tree with a listed directory and a matched file below it.
C2_Witness ==
    /\ RoundTripCase
    /\ \E d \in ListedDirs, f \in MatchedFiles : StartsWith(f, d \o << "/" >>)

-----------------------------------------------------------------------------
(* Claims about combine_from_filelist (SpecCombine).                       *)

\* An entry the last call could write: it passes the extension filter and named
\* a readable UTF-8 file of the source tree the call saw.
Writable(e) ==
    /\ has_matching_extension(e, combine_args.exts)
    /\ PathOf(e) \in DOMAIN combine_args.files
    /\ combine_args.files[PathOf(e)] = "text"

\* The paths of the chunks of one kind, in the order they were written.
PathsOf(kind, chunks) ==
    LET sel == SelectSeq(chunks, LAMBDA c : c.kind = kind)
    IN [k \in 1..Len(sel) |-> sel[k].path]

\* The entries of a tree file in line order: what follows the marker on every
\* line that is neither blank nor a comment.
ManifestEntries(f) ==
    LET sel == SelectSeq(f.lines, IsEntryLine)
    IN [k \in 1..Len(sel) |-> Strip(AfterFirst(Strip(sel[k]), Marker))]

\* C3: the file blocks of the destination are the written entries in the order
\* of the entry list, and that order is the order of the lines of the parsed
\* tree file.
C3_BlocksInEntryOrder ==
    combine_args.called =>
        /\ PathsOf("begin", out_disk.chunks) = SelectSeq(combine_args.flist, Writable)
        /\ PathsOf("begin", out_disk.chunks) = SelectSeq(ManifestEntries(tree_file), Writable)

\* Two blocks were written in an order that is not the sorted one.
C3_Witness ==
    /\ combine_args.called
    /\ \E i, j \in 1..Len(out_disk.chunks) :
         /\ i < j
         /\ out_disk.chunks[i].kind = "begin"
         /\ out_disk.chunks[j].kind = "begin"
         /\ StrLess(out_disk.chunks[j].path, out_disk.chunks[i].path)

\* C4: processed_count is the number of files written, which is the number of
\* BEGIN markers and of END markers; every entry that is not written leaves
\* nothing in the destination, and the entries after it are still processed.
C4_CountIsBlocksWritten ==
    combine_args.called =>
        LET chunks == out_disk.chunks IN
        /\ processed_count = Len(PathsOf("begin", chunks))
        /\ processed_count = Len(PathsOf("end", chunks))
        /\ processed_count = Len(SelectSeq(combine_args.flist, Writable))
        /\ Len(chunks) = 1 + 3 * processed_count
        /\ \A b \in 1..processed_count :
             /\ chunks[3 * b - 1].kind = "begin"
             /\ chunks[3 * b].kind = "lines"
             /\ chunks[3 * b + 1].kind = "end"
             /\ chunks[3 * b].path = chunks[3 * b - 1].path
             /\ chunks[3 * b + 1].path = chunks[3 * b - 1].path

\* A tree file from which a human deleted a line, with an entry that is skipped
\* before one that is written.
C4_Witness ==
    /\ combine_args.called
    /\ edits = 1
    /\ processed_count >= 1
    /\ \E i, j \in 1..Len(combine_args.flist) :
         /\ i < j
         /\ ~Writable(combine_args.flist[i])
         /\ Writable(combine_args.flist[j])

\* C5: a combine call with the arguments and source tree of the call before
\* leaves the same destination, and nothing of what the destination held before
\* a call is left after it.
C5_RerunReplaces ==
    combine_args.called =>
        /\ prev_run.same => out_disk = prev_run.out
        /\ \A k \in 1..Len(out_disk.chunks) :
             (out_disk.chunks[k].kind = "header") <=> (k = 1)
        /\ \A k \in 1..Len(out_disk.chunks) : out_disk.chunks[k].kind # "old"

\* A second call with the same arguments over a destination holding blocks.
C5_Witness ==
    /\ combine_args.called
    /\ prev_run.same
    /\ prev_run.out.exists
    /\ processed_count >= 1

\* The watcher alone, in any configuration of its handler.
InitWatch ==
    /\ files = [p \in {} |-> "text"]
    /\ dirs = {}
    /\ wiring \in {"lib", "cli"}
    /\ extensions \in IF wiring = "lib" THEN { << ExtPy >>, << ExtPy, ExtMd >> }
                                       ELSE { << ExtPy >> }
    /\ ignore_names = << >>
    /\ ignore_paths \in IgnorePathChoices
    /\ include_names \in IncludeChoices
    /\ \E cfg \in { << FALSE, NoList >>, << TRUE, ListOf(<< >>) >>,
                    << TRUE, ListOf(<< NameA >>) >> } :
         use_tree = cfg[1] /\ filelist = cfg[2]
    /\ tree_file = NoFile
    /\ out_disk = NoOutput
    /\ NothingDone
    /\ last_run = 0
    /\ last_changed_file = None
    /\ now = StartTime
    /\ queue = << >>
    /\ obs_pc = "idle"
    /\ rebuilds = 0
    /\ handled = NotHandled
    /\ disp = NotDispatched
    /\ failures = 0

NextWatch ==
    \/ \E e \in Events : FsEvent(e)
    \/ Tick
    \/ OnAnyEvent
    \/ CallbackReturns
    \/ CallbackFails

SpecWatch == InitWatch /\ [][NextWatch]_vars

\* C6: an event on the file the rebuild writes never invokes the callback.
C6_OutputEventNeverDispatched ==
    (handled.any /\ handled.event.src_path = OutputPath) => ~handled.dispatched

\* The filters of the watcher as the composition rule states them, on the
\* event's file name and its path relative to source_dir.
EventAccepted(e) ==
    /\ ~e.is_directory
    /\ Accepted(Basename(e.src_path), EventRelPath(e), extensions,
                ignore_names, ignore_paths, include_names)

\* C7: two successive invocations of the callback are at least DebounceTime
\* apart; an accepted event handled less than DebounceTime after the last
\* invocation is dropped and changes nothing, one handled later is dispatched;
\* of the accepted events for one file handled within 200 ms only the first is
\* dispatched.
C7_DebounceWindow ==
    /\ disp.twice => disp.last - disp.prev >= DebounceTime
    /\ disp.any => last_run = disp.last
    /\ (handled.any /\ handled.passed /\ handled.early) => ~handled.dispatched
    /\ (handled.any /\ handled.passed /\ ~handled.early) => handled.dispatched
    /\ (handled.any /\ handled.burst > 1) => ~handled.dispatched

\* Three accepted events for one file were handled within 200 ms; the third
\* was dropped as the second was.
C7_Witness ==
    /\ handled.any /\ handled.passed /\ ~handled.dispatched
    /\ handled.burst = 3
    /\ now - disp.last <= 2
    /\ queue = << >>

\* C8: after a rebuild has failed the observer still handles events.
C8_FailureSurvived ==
    failures > 0 => obs_pc # "dead"

\* C9: the callback is invoked only for a file event that passes the
\* extension, ignore and include filters and, in tree mode, only for a path
\* of the entry list, whatever the list holds.
C9_TreeModeOnlyListed ==
    (handled.any /\ handled.dispatched) =>
        /\ EventAccepted(handled.event)
        /\ use_tree =>
             \E k \in 1..Len(filelist.items) :
                 filelist.items[k] = EventRelPath(handled.event)

\* C10: at most one rebuild runs at a time, and while it runs the observer is
\* inside the callback: it takes the next event only after the callback ended.
C10_OneRebuildAtATime ==
    /\ rebuilds <= 1
    /\ rebuilds = 1 => obs_pc = "callback"
    /\ obs_pc = "idle" => rebuilds = 0

\* A rebuild is running for longer than the debounce window while an event
\* that passes every filter waits for the observer.
C10_Witness ==
    /\ rebuilds = 1
    /\ queue # << >>
    /\ Passes(Head(queue))
    /\ ~Debounced(now)

-----------------------------------------------------------------------------
(* core/filters.py, each predicate called on its own (SpecFilters).        *)

\* has_matching_extension with its argument as the caller gives it.
HasMatchingExtension(filename, arg) ==
    IF NotExtensions(arg) THEN TRUE
    ELSE has_matching_extension(filename, IF arg.is_str THEN << arg.str >> ELSE arg.list)

NameDotPy ==
    << ".", "p", "y" >>
NamePyc ==
    << "a", ".", "p", "y", "c" >>
NameNoDot ==
    << "p", "y" >>
NameLibM ==
    << "l", "i", "b", "/", "m", ".", "p", "y" >>
NameDirDot ==
    << "a", ".", "b", "/", "c" >>
NameEndDot ==
    << "a", "." >>
NameTwoDots ==
    << "m", ".", "p", "y", ".", "m", "d" >>
ExtUpper ==
    << ".", "P", "Y" >>
ExtNoDot ==
    << "p", "y" >>
ExtDot ==
    << "." >>
ExtDir ==
    << ".", "b", "/", "c" >>
RelTestT ==
    << "t", "e", "s", "t", "/", "t", ".", "p", "y" >>
RelLibTestX ==
    << "l", "i", "b", "/", "t", "e", "s", "t", "/", "x", ".", "P", "Y" >>

\* File names and paths has_matching_extension is called with.
FilterNames ==
    { NameA, NameX, NameB, NameDotPy, NamePyc, NameNoDot, NameLibM, NameDirDot,
      NameEndDot, NameTwoDots }

ExtensionArgs ==
    { ListArg(<< >>), ListArg(<< ExtPy >>), ListArg(<< ExtUpper >>),
      ListArg(<< ExtMd, ExtPy >>), ListArg(<< ExtNoDot >>), ListArg(<< << >> >>),
      ListArg(<< ExtDot >>), ListArg(<< ExtDir >>),
      StrArg(ExtPy), StrArg(ExtMd), StrArg(<< >>) }

\* (filename, rel_path) pairs and keyword lists should_ignore is called with.
IgnoreSubjects ==
    { << NameA, NameA >>, << NameM, NameLibM >>, << NameT, RelTestT >>,
      << NameX, RelLibTestX >> }

KeywordLists == { << >>, << KwTest >>, << KwLib >>, << KwM >>, << KwTest, KwM >> }

CallHasMatchingExtension(filename, arg) ==
    /\ call.op = "none"
    /\ call' = [NoCallYet EXCEPT !.op = "has_matching_extension",
                                 !.filename = filename, !.arg = arg]
    /\ LET r == HasMatchingExtension(filename, arg) IN
         result' = [value |-> r, more |-> r]
    /\ UNCHANGED << fsVars, critVars, treeVars, combineVars, watchVars, cliVars, tuiVars >>

\* should_ignore, and should_ignore again with entries added to both lists.
CallShouldIgnore(subject, ign_names, ign_paths, more_names, more_paths) ==
    /\ call.op = "none"
    /\ call' = [NoCallYet EXCEPT !.op = "should_ignore",
                                 !.filename = subject[1], !.rel_path = subject[2],
                                 !.ignore_names = ign_names, !.ignore_paths = ign_paths,
                                 !.more_names = more_names, !.more_paths = more_paths]
    /\ result' = [value |-> should_ignore(subject[1], subject[2], ign_names, ign_paths),
                  more |-> should_ignore(subject[1], subject[2],
                                         ign_names \o more_names,
                                         ign_paths \o more_paths)]
    /\ UNCHANGED << fsVars, critVars, treeVars, combineVars, watchVars, cliVars, tuiVars >>

InitFilters ==
    /\ files = [p \in {} |-> "text"]
    /\ dirs = {}
    /\ extensions = << >>
    /\ ignore_names = << >>
    /\ ignore_paths = << >>
    /\ include_names = << >>
    /\ tree_file = NoFile
    /\ out_disk = NoOutput
    /\ NothingDone
    /\ WatchOff

NextFilters ==
    \/ \E filename \in FilterNames, arg \in ExtensionArgs :
         CallHasMatchingExtension(filename, arg)
    \/ \E subject \in IgnoreSubjects, ign_names \in KeywordLists,
          ign_paths \in KeywordLists, more_names \in KeywordLists,
          more_paths \in KeywordLists :
         CallShouldIgnore(subject, ign_names, ign_paths, more_names, more_paths)

SpecFilters == InitFilters /\ [][NextFilters]_vars

\* The suffix of a name from its last dot, empty when it has no dot.
SuffixFromLastDot(name) ==
    LET d == RFind(name, << "." >>) IN IF d = 0 THEN << >> ELSE Slice(name, d, Len(name))

\* The extension of a name: of its last path component without its leading
\* dots, the suffix from the last dot; empty when no dot is left.
FinalExtension(name) ==
    LET comps == Split(name, << "/" >>)
        base == comps[Len(comps)]
        nondot == {i \in 1..Len(base) : base[i] # "."}
        first == IF nondot = {} THEN Len(base) + 1
                 ELSE CHOOSE i \in nondot : \A j \in nondot : i <= j
        rest == Slice(base, first, Len(base))
    IN SuffixFromLastDot(rest)

\* C11 as stated: true for the empty list, otherwise true exactly when the
\* suffix of the name from its last dot equals, ignoring case, a listed extension,
\* a str behaving as the one-element list.
C11_SuffixFromLastDot ==
    call.op = "has_matching_extension" =>
        (result.value <=>
            \/ Len(Listed(call.arg)) = 0
            \/ \E i \in 1..Len(Listed(call.arg)) :
                 Lower(SuffixFromLastDot(call.filename)) = Lower(Listed(call.arg)[i]))

\* C11 amended: true when extensions is the empty list or the empty str,
\* otherwise true exactly when the extension of the last path component (leading
\* dots start no extension) equals, ignoring case, a listed extension.
C11_FinalExtension ==
    call.op = "has_matching_extension" =>
        (result.value <=>
            \/ NotExtensions(call.arg)
            \/ \E i \in 1..Len(Listed(call.arg)) :
                 Lower(FinalExtension(call.filename)) = Lower(Listed(call.arg)[i]))

\* x.PY matches the listed extension .py, given as a str.
C11_Witness ==
    /\ call.op = "has_matching_extension"
    /\ call.filename = NameX
    /\ call.arg = StrArg(ExtPy)
    /\ result.value

\* C12: when should_ignore is true it stays true with entries added to either
\* list, and with both lists empty it is false.
C12_IgnoreMonotonic ==
    call.op = "should_ignore" =>
        /\ result.value => result.more
        /\ (call.ignore_names = << >> /\ call.ignore_paths = << >>) => ~result.value

\* A path ignored for a keyword of ignore_paths, still ignored after keywords
\* that match nothing were added to both lists.
C12_Witness ==
    /\ call.op = "should_ignore"
    /\ result.value /\ result.more
    /\ call.more_names # << >> /\ call.more_paths # << >>
    /\ ~should_ignore(call.filename, call.rel_path, call.more_names, call.more_paths)

-----------------------------------------------------------------------------
(* Claims about the header of the tree file (Spec).                        *)

FileLines(f) == SelectSeq(ManifestEntries(f), LAMBDA e : IsFile(PathOf(e)))

-----------------------------------------------------------------------------
(* parse_tree_file on tree files written by hand (SpecParse).              *)

\* Lines of a tree file: headers in any case, repeated, empty or unknown, a
\* commented-out entry, a blank line, and entry lines.
LineSource ==
    << "#", " ", "S", "o", "u", "r", "c", "e", " ", "D", "i", "r", "e", "c",
       "t", "o", "r", "y", ":", " ", "/", "r" >>
LineSourceUpper ==
    << "#", " ", "S", "O", "U", "R", "C", "E", " ", "D", "I", "R", "E", "C",
       "T", "O", "R", "Y", ":", " ", "/", "x" >>
LineOutput ==
    << "#", " ", "O", "u", "t", "p", "u", "t", " ", "F", "i", "l", "e", ":",
       " ", "o", "u", "t", ".", "p", "y" >>
LineExts ==
    << "#", " ", "E", "x", "t", "e", "n", "s", "i", "o", "n", "s", ":", " ",
       ".", "p", "y", ",", " ", ".", "m", "d" >>
LineExtsEmpty ==
    << "#", " ", "e", "x", "t", "e", "n", "s", "i", "o", "n", "s", ":" >>
LineExtLegacy ==
    << "#", " ", "E", "x", "t", "e", "n", "s", "i", "o", "n", ":", " ", ".",
       "m", "d" >>
LineExtLegacyEmpty ==
    << "#", " ", "E", "x", "t", "e", "n", "s", "i", "o", "n", ":" >>
LineStripYes ==
    << "#", " ", "S", "t", "r", "i", "p", " ", "C", "o", "m", "m", "e", "n",
       "t", "s", ":", " ", "y", "e", "s" >>
LineStripNo ==
    << "#", " ", "s", "t", "r", "i", "p", " ", "c", "o", "m", "m", "e", "n",
       "t", "s", ":", " ", "N", "O" >>
LineDocYes ==
    << "#", " ", "R", "e", "m", "o", "v", "e", " ", "D", "o", "c", "s", "t",
       "r", "i", "n", "g", "s", ":", " ", "Y", "e", "s" >>
LineUnknown ==
    << "#", " ", "P", "r", "o", "p", "o", "s", "e", "d", " ", "i", "n", "c",
       "l", "u", "s", "i", "o", "n", " ", "l", "i", "s", "t", " ", "f", "o",
       "r", " ", "f", "i", "l", "e", "s", " ", "w", "i", "t", "h", " ", "e",
       "x", "t", "e", "n", "s", "i", "o", "n", "s", ":", " ", ".", "p", "y" >>
LineCommentedEntry ==
    << "#", " ", "BOX_VR", "BOX_H", "BOX_H", " ", "a", ".", "p", "y" >>
LineBlank ==
    << " ", " " >>
LineDir ==
    << "BOX_VR", "BOX_H", "BOX_H", " ", "l", "i", "b" >>
LineNested ==
    << "BOX_V", " ", " ", " ", "BOX_VR", "BOX_H", "BOX_H", " ", "m", ".",
       "p", "y" >>
LineTwoMarkers ==
    << "BOX_VR", "BOX_H", "BOX_H", " ", "a", ".", "p", "y", "BOX_H",
       "BOX_H", "b", ".", "m", "d" >>
LineMarkerOnly ==
    << "BOX_VR", "BOX_H", "BOX_H", " " >>
LineNoMarker ==
    << "a", ".", "p", "y" >>

ManifestLines ==
    { LineSource, LineSourceUpper, LineOutput, LineExts, LineExtsEmpty,
      LineExtLegacy, LineExtLegacyEmpty, LineStripYes, LineStripNo, LineDocYes,
      LineUnknown, LineCommentedEntry, LineBlank, LineDir, LineNested,
      LineTwoMarkers, LineMarkerOnly, LineNoMarker }

\* Lines of a tree file written by hand.
MaxLines == 2

ManifestTexts == UNION {[1..n -> ManifestLines] : n \in 0..MaxLines}

\* The tree file is missing, readable, or not UTF-8 after its first line.
InitParse ==
    /\ files = [p \in {} |-> "text"]
    /\ dirs = {}
    /\ extensions = << >>
    /\ ignore_names = << >>
    /\ ignore_paths = << >>
    /\ include_names = << >>
    /\ tree_file \in {NoFile} \cup {TextFile(t) : t \in ManifestTexts}
                     \cup {BadFile(t) : t \in {u \in ManifestTexts : Len(u) = 1}}
    /\ out_disk = NoOutput
    /\ NothingDone
    /\ WatchOff

NextParse == ParseTreeFile

SpecParse == InitParse /\ [][NextParse]_vars

\* The header lines of a tree file whose lowered text starts with a key.
KeyLines(f, key) ==
    {k \in 1..Len(f.lines) : StartsWith(Lower(Strip(f.lines[k])), key)}

\* The last line of a non-empty set of lines.
LastOf(S) == CHOOSE k \in S : \A j \in S : j <= k

\* The value written on line k of a tree file.
ValueAt(f, k) == Strip(AfterFirst(Strip(f.lines[k]), << ":" >>))

\* The legacy "# Extension:" lines that carry a value.
LegacyLinesWithValue(f) == {k \in KeyLines(f, KeyExt) : Len(ValueAt(f, k)) > 0}

\* The extensions the last of a set of extension lines stands for.
ExtensionsAt(f, S) ==
    IF S = {} THEN << >>
    ELSE IF LastOf(S) \in KeyLines(f, KeyExts)
        THEN StrippedNonEmpty(Split(ValueAt(f, LastOf(S)), << "," >>))
    ELSE IF Len(ValueAt(f, LastOf(S))) > 0 THEN << ValueAt(f, LastOf(S)) >>
    ELSE << >>

\* The lines that are neither blank nor header lines and hold the marker.
MarkerLines(f) ==
    {k \in 1..Len(f.lines) : /\ ~StartsWith(Strip(f.lines[k]), << "#" >>)
                             /\ Contains(Strip(f.lines[k]), Marker)}

Readable(f) == f.exists /\ f.decodes

\* The scalar headers are decided by the last line with their key, whatever
\* the case of the key, and no header line adds an entry.
ScalarHeadersLastWins(f, r) ==
    /\ r.source_dir = (IF KeyLines(f, KeySource) = {} THEN None
                       ELSE ValueAt(f, LastOf(KeyLines(f, KeySource))))
    /\ r.output_file = (IF KeyLines(f, KeyOutput) = {} THEN None
                        ELSE ValueAt(f, LastOf(KeyLines(f, KeyOutput))))
    /\ r.remove_comments =
           (IF KeyLines(f, KeyStrip) = {} THEN "None"
            ELSE OptBool(Lower(ValueAt(f, LastOf(KeyLines(f, KeyStrip)))) = Yes))
    /\ r.remove_docstrings =
           (IF KeyLines(f, KeyDoc) = {} THEN "None"
            ELSE OptBool(Lower(ValueAt(f, LastOf(KeyLines(f, KeyDoc)))) = Yes))
    /\ Len(r.included_paths) = Cardinality(MarkerLines(f))

\* C14 as stated: header keys are matched whatever their case, the last
\* occurrence of every recognized key wins, the extension keys included, and
\* unknown header lines change nothing and add no entry.
C14_LastOccurrenceWins ==
    (parsed.done /\ Readable(tree_file)) =>
        /\ ScalarHeadersLastWins(tree_file, parsed.result)
        /\ parsed.result.extensions =
               ExtensionsAt(tree_file, KeyLines(tree_file, KeyExts)
                                       \cup KeyLines(tree_file, KeyExt))

\* C14 amended: header keys are matched whatever their case and the last
\* occurrence of a recognized key wins, except that a legacy "# Extension:"
\* line without a value leaves the extensions as they were; unknown header
\* lines change nothing and add no entry.
C14_LastValuedOccurrenceWins ==
    (parsed.done /\ Readable(tree_file)) =>
        /\ ScalarHeadersLastWins(tree_file, parsed.result)
        /\ parsed.result.extensions =
               ExtensionsAt(tree_file, KeyLines(tree_file, KeyExts)
                                       \cup LegacyLinesWithValue(tree_file))

\* A tree file that names the source directory twice, in different case, has
\* been parsed and the second value is returned.
C14_Witness ==
    /\ parsed.done
    /\ tree_file = TextFile(<< LineSource, LineSourceUpper >>)
    /\ parsed.result.source_dir = << "/", "x" >>

\* What follows the last occurrence of sep in s.
AfterLast(s, sep) == Slice(s, RFind(s, sep) + Len(sep), Len(s))

\* The entries the marker lines of a tree file stand for when each line gives
\* what follows its last marker, trimmed, and nothing when that is empty.
EntriesAfterLastMarker(f) ==
    SelectSeq([k \in 1..Len(f.lines) |->
                  IF k \in MarkerLines(f)
                  THEN Strip(AfterLast(Strip(f.lines[k]), Marker))
                  ELSE << >>],
              LAMBDA e : Len(e) > 0)

\* C15 as stated: every line that is neither blank nor a header and holds the
\* marker gives the text after the last marker, trimmed, recorded only when it
\* is not empty; lines without the marker give no entry.
C15_AfterLastMarkerNonEmpty ==
    (parsed.done /\ Readable(tree_file)) =>
        parsed.result.included_paths = EntriesAfterLastMarker(tree_file)

\* The fields of a result whose header lines, or entry lines, are absent
\* from the tree file have the given values.
AbsentFieldsAre(f, r, no_str, no_flag, no_list) ==
    /\ KeyLines(f, KeySource) = {} => r.source_dir = no_str
    /\ KeyLines(f, KeyOutput) = {} => r.output_file = no_str
    /\ KeyLines(f, KeyStrip) = {} => r.remove_comments = no_flag
    /\ KeyLines(f, KeyDoc) = {} => r.remove_docstrings = no_flag
    /\ KeyLines(f, KeyExts) \cup KeyLines(f, KeyExt) = {} => r.extensions = no_list
    /\ MarkerLines(f) = {} => r.included_paths = no_list

\* C16 as stated: a readable tree file gives the empty string, or the empty
\* list, for every field whose header is absent; a tree file that cannot be
\* opened or decoded gives the all-empty result.
C16_AbsentIsEmptyString ==
    parsed.done =>
        /\ Readable(tree_file) =>
               AbsentFieldsAre(tree_file, parsed.result, << >>, "None", << >>)
        /\ ~Readable(tree_file) => parsed.result = ParseStart

\* C16 amended: parse_tree_file returns for every tree file; a readable tree
\* file gives None for the source directory, the output file and either flag
\* when their header is absent, and the empty list for absent extensions or
\* entries; a tree file that cannot be opened or decoded gives the all-empty
\* result (None, None, [], None, None, []), not a partly filled one.
C16_AbsentIsNone ==
    parsed.done =>
        /\ Readable(tree_file) =>
               AbsentFieldsAre(tree_file, parsed.result, None, "None", << >>)
        /\ ~Readable(tree_file) => parsed.result = ParseStart

\* A tree file that stops decoding after a header line has been parsed and
\* the result is all-empty.
C16_Witness ==
    /\ parsed.done
    /\ tree_file = BadFile(<< LineSource >>)
    /\ parsed.result = ParseStart

\* C17 as stated: a file line that carries only the basename, nested under
\* the line of its directory, gives the full relative path of the file, and
\* the directory is among the entries as well.
C17_NestedBasenameGivesFullPath ==
    (parsed.done /\ tree_file = TextFile(<< LineDir, LineNested >>)) =>
        \E j, k \in 1..Len(parsed.result.included_paths) :
            /\ parsed.result.included_paths[j] = NameLib
            /\ parsed.result.included_paths[k] = NameLibM

-----------------------------------------------------------------------------
(* cli/commands.py: main (SpecCli).                                        *)

TreeName ==
    << "t", "r", "e", "e", ".", "t", "x", "t" >>
DefaultSource ==
    << "." >>
DefaultOutput ==
    << "c", "o", "m", "b", "i", "n", "e", "d", "_", "o", "u", "t", "p", "u",
       "t", ".", "t", "x", "t" >>

\* `not value` for an optional str: None and the empty str are falsy.
Falsy(v) == v = None \/ v = << >>

\* `not parsed_args.ext`
NoExtension(ext) == ~ext.given \/ NotExtensions(ext.arg)

\* The parameters of generate_tree_file and of combine_from_filelist, and the
\* keywords main passes to each.
generate_tree_file_params ==
    { "source_dir", "tree_output_path", "extensions", "ignore_names",
      "ignore_paths", "include_names", "output_file", "remove_comments",
      "remove_docstrings" }
ExportTreeKeywords ==
    { "source_dir", "tree_output_path", "extension", "ignore_names",
      "ignore_paths", "include_names", "output_file", "remove_comments",
      "remove_docstrings" }
combine_from_filelist_params ==
    { "source_dir", "output_file", "extensions", "filelist", "remove_comments",
      "remove_docstrings", "progress_callback" }
UseTreeKeywords ==
    { "source_dir", "output_file", "extension", "filelist", "remove_comments",
      "remove_docstrings" }

\* A call with a keyword the function has no parameter for raises TypeError
\* before the body runs.
AcceptsKeywords(keywords, params) == keywords \subseteq params

\* A variant of FillFromTree in which what the tree file names replaces what
\* the command line gave.
FillFromTreeFirst(a, t) ==
    [a EXCEPT
       !.source_dir = IF ~Falsy(t.source_dir) THEN t.source_dir ELSE @,
       !.output_file = IF ~Falsy(t.output_file) THEN t.output_file ELSE @,
       !.ext = IF t.extensions # << >> THEN GivenExt(ListArg(t.extensions)) ELSE @,
       !.strip_comments = IF t.remove_comments # "None" THEN t.remove_comments ELSE @,
       !.remove_docstrings = IF t.remove_docstrings # "None"
                             THEN t.remove_docstrings ELSE @]

\* bool(parsed_args.strip_comments), bool(parsed_args.remove_docstrings)
FlagArgument(v) == v = "True"

\* "Fill args from tree if missing on CLI"
FillFromTree(a, t) ==
    [a EXCEPT
       !.source_dir = IF Falsy(@) /\ ~Falsy(t.source_dir) THEN t.source_dir ELSE @,
       !.output_file = IF Falsy(@) /\ ~Falsy(t.output_file) THEN t.output_file ELSE @,
       !.ext = IF NoExtension(@) /\ t.extensions # << >>
               THEN GivenExt(ListArg(t.extensions)) ELSE @,
       !.strip_comments = IF @ = "None" THEN t.remove_comments ELSE @,
       !.remove_docstrings = IF @ = "None" THEN t.remove_docstrings ELSE @]

needs_essential_args(a) ==
    Falsy(a.source_dir) \/ Falsy(a.output_file) \/ NoExtension(a.ext)

\* What the user does at the prompts: press enter at each, or press enter and
\* choose mode 1 or 2, or close the input.
Answers == {"enter", "mode1", "mode2", "eof"}

\* InteractiveSetup.run_interactive when every prompt is answered.
run_interactive(a, answers) ==
    LET choose == Falsy(a.export_tree) /\ Falsy(a.use_tree) IN
    [a EXCEPT
       !.source_dir = IF Falsy(@) THEN DefaultSource ELSE @,
       !.output_file = IF Falsy(@) THEN DefaultOutput ELSE @,
       !.ext = IF NoExtension(@) THEN GivenExt(StrArg(ExtPy)) ELSE @,
       !.strip_comments = IF @ = "None" THEN "False" ELSE @,
       !.remove_docstrings = IF @ = "None" THEN "False" ELSE @,
       !.export_tree = IF choose /\ answers = "mode1" THEN TreeName ELSE @,
       !.use_tree = IF choose /\ answers = "mode2" THEN TreeName ELSE @]

\* A variant of MissingInfo without the test of the extension.
MissingInfoWithoutExt(a) ==
    IF Falsy(a.source_dir) THEN "source_dir"
    ELSE IF Falsy(a.output_file) THEN "output_file"
    ELSE "none"

\* "Check for missing info": the first of the three tests that fails.
MissingInfo(a) ==
    IF Falsy(a.source_dir) THEN "source_dir"
    ELSE IF Falsy(a.output_file) THEN "output_file"
    ELSE IF NoExtension(a.ext) THEN "ext"
    ELSE "none"

\* What a run of main leaves behind.
Ended(a, prompted, flist, code, errors, warnings, called, out, tree) ==
    [args |-> a, prompted |-> prompted, filelist |-> flist, returned |-> code,
     errors |-> errors, warnings |-> warnings, called |-> called,
     out |-> out, tree |-> tree]

\* combine_source_files is imported from core/combiner.py, which does not
\* define it: the call either writes the destination anew and returns, or
\* raises.
DirectOutcomes == {"written", "raised"}

combine_source_files(old, a, outcome) ==
    IF outcome = "written"
    THEN [raised |-> FALSE,
          out |-> [exists |-> TRUE,
                   chunks |-> combine_from_filelist(old.chunks, Listed(a.ext.arg), << >>,
                                                    FlagArgument(a.strip_comments),
                                                    FlagArgument(a.remove_docstrings)).chunks]]
    ELSE [raised |-> TRUE, out |-> old]

\* The end of the direct mode: r is what combine_source_files did.
main_direct(a2, prompted, flist, r, tree) ==
    IF r.raised
    THEN Ended(a2, prompted, flist, 1, << "direct_combine" >>, << >>,
               "combine_source_files", r.out, tree)
    ELSE Ended(a2, prompted, flist, 0, << >>, << >>, "combine_source_files", r.out, tree)

\* main from "1) Export tree" on: a2 is the namespace after the tree file and
\* the prompts, flist the entries of the tree file.
main_modes(a2, prompted, flist, outcome, tree, out) ==
    IF ~Falsy(a2.export_tree) THEN
        IF AcceptsKeywords(ExportTreeKeywords, generate_tree_file_params)
        THEN Ended(a2, prompted, flist, 0, << >>, << >>, "generate_tree_file", out,
                   generate_tree_file(a2.output_file, FlagArgument(a2.strip_comments),
                                      FlagArgument(a2.remove_docstrings)).written)
        ELSE Ended(a2, prompted, flist, 1, << "export" >>, << >>, "none", out, tree)
    ELSE IF MissingInfo(a2) # "none"
        THEN Ended(a2, prompted, flist, 1, << MissingInfo(a2) >>, << >>, "none", out, tree)
    ELSE IF ~Falsy(a2.use_tree) THEN
        IF flist = << >>
        THEN Ended(a2, prompted, flist, 0, << >>, << "no_paths" >>, "none", out, tree)
        ELSE IF AcceptsKeywords(UseTreeKeywords, combine_from_filelist_params)
        THEN Ended(a2, prompted, flist, 0, << >>, << >>, "combine_from_filelist",
                   [exists |-> TRUE,
                    chunks |-> combine_from_filelist(out.chunks, Listed(a2.ext.arg), flist,
                                                     FlagArgument(a2.strip_comments),
                                                     FlagArgument(a2.remove_docstrings)).chunks],
                   tree)
        ELSE Ended(a2, prompted, flist, 1, << "tree_combine" >>, << >>, "none", out, tree)
    ELSE main_direct(a2, prompted, flist, combine_source_files(out, a2, outcome), tree)

\* main from "Possibly go interactive now" on: a1 is the namespace after the
\* tree file.
main_prompts(a1, prompted, flist, answers, outcome, tree, out) ==
    IF prompted /\ answers = "eof"
    THEN Ended(a1, TRUE, flist, 1, << "unexpected" >>, << >>, "none", out, tree)
    ELSE main_modes(IF prompted THEN run_interactive(a1, answers) ELSE a1,
                    prompted, flist, outcome, tree, out)

\* `parsed_args.interactive or (needs_essential_args and sys.stdin.isatty())`
main_filled(a1, flist, isatty, answers, outcome, tree, out) ==
    main_prompts(a1, a1.interactive \/ (needs_essential_args(a1) /\ isatty),
                 flist, answers, outcome, tree, out)

\* main after the test of the exclusive flags: t is what parse_tree_file
\* returned, the all-empty tuple when there is no --use-tree.
main_tree(argv, t, isatty, answers, outcome, tree, out) ==
    main_filled(IF ~Falsy(argv.use_tree) THEN FillFromTree(argv, t) ELSE argv,
                t.included_paths, isatty, answers, outcome, tree, out)

\* main(args) without --watch: the namespace, whether stdin is a terminal,
\* what the user answers, and what the direct combine does.
main(argv, isatty, answers, outcome, tree, out) ==
    IF ~Falsy(argv.export_tree) /\ ~Falsy(argv.use_tree)
    THEN Ended(argv, FALSE, << >>, 1, << "exclusive" >>, << >>, "none", out, tree)
    ELSE main_tree(argv,
                   IF ~Falsy(argv.use_tree) THEN parse_tree_file(tree) ELSE ParseStart,
                   isatty, answers, outcome, tree, out)

\* The namespaces parse_args can return: the second positional argument is
\* the output file, so it is absent whenever the first is.
Argvs ==
    { a \in [source_dir : {None, << >>, SourceDir},
             output_file : {None, OutputName},
             ext : {NoExt, GivenExt(StrArg(ExtPy))},
             export_tree : {None, TreeName},
             use_tree : {None, TreeName},
             interactive : BOOLEAN,
             strip_comments : {"None", "True", "False"},
             remove_docstrings : {"None", "False"}] :
        a.source_dir = None => a.output_file = None }

\* One run of main.
Main(argv, isatty, answers, outcome) ==
    /\ ~cli.ran
    /\ \E m \in {main(argv, isatty, answers, outcome, tree_file, out_disk)} :
         /\ cli' = [ran |-> TRUE, argv |-> argv, isatty |-> isatty, answers |-> answers,
                    args |-> m.args, prompted |-> m.prompted, filelist |-> m.filelist,
                    returned |-> m.returned, errors |-> m.errors,
                    warnings |-> m.warnings, called |-> m.called,
                    out_before |-> out_disk, tree_before |-> tree_file]
         /\ out_disk' = m.out
         /\ tree_file' = m.tree
    /\ UNCHANGED << tuiVars, walked, file_count, edits, parsed, exported, fsVars, critVars,
                    callVars, processed_count, combine_args, prev_run, watchVars >>

LineOutputOther ==
    << "#", " ", "O", "u", "t", "p", "u", "t", " ", "F", "i", "l", "e", ":",
       " ", "b", "u", "n", "d", "l", "e", ".", "m", "d" >>

\* The tree files main is run on: missing, not UTF-8, empty, complete, with a
\* header and no entry, with entries and no header, and one that names
\* another directory and destination and both flags.
CliTreeFiles ==
    { NoFile, BadFile(<< LineSource >>), TextFile(<< >>),
      TextFile(<< LineSource, LineOutput, LineExts, LineDir >>),
      TextFile(<< LineSource, LineOutput, LineExts >>),
      TextFile(<< LineDir >>),
      TextFile(<< LineSourceUpper, LineOutputOther, LineExts, LineStripYes,
                  LineDocYes, LineDir >>) }

InitCli ==
    /\ files = [p \in {} |-> "text"]
    /\ dirs = {}
    /\ extensions = << ExtPy >>
    /\ ignore_names = << >>
    /\ ignore_paths = << >>
    /\ include_names = << >>
    /\ tree_file \in CliTreeFiles
    /\ out_disk \in {NoOutput, OldOutput}
    /\ NothingDone
    /\ WatchOff

NextCli ==
    \E argv \in Argvs, isatty \in BOOLEAN, answers \in Answers,
       outcome \in DirectOutcomes :
        Main(argv, isatty, answers, outcome)

SpecCli == InitCli /\ [][NextCli]_vars

\* The run ended with the named item of the configuration missing.
ItemMissing(item, a) ==
    \/ item = "source_dir" /\ Falsy(a.source_dir)
    \/ item = "output_file" /\ Falsy(a.output_file)
    \/ item = "ext" /\ NoExtension(a.ext)

C20_UnreadableManifestFails ==
    (/\ cli.ran
     /\ ~Falsy(cli.argv.use_tree)
     /\ Falsy(cli.argv.export_tree)
     /\ ~Readable(cli.tree_before)) =>
        /\ cli.returned = 1
        /\ cli.called = "none"
        /\ out_disk = cli.out_before

-----------------------------------------------------------------------------
(* The order of the lines generate_tree_file writes.                       *)

\* The names of the path line k of the walk stands for, from source_dir down.
WalkedPath(k) == PathOf(walked[k].rel)

\* q is a proper ancestor of the path p.
ProperAncestor(q, p) == Len(q) < Len(p) /\ SubSeq(p, 1, Len(q)) = q

\* The lines j and k name entries of one directory.
SameDirectory(j, k) ==
    /\ Len(WalkedPath(j)) = Len(WalkedPath(k))
    /\ SubSeq(WalkedPath(j), 1, Len(WalkedPath(j)) - 1)
           = SubSeq(WalkedPath(k), 1, Len(WalkedPath(k)) - 1)

\* C22: the export walks depth-first.  Every line below a directory comes
\* after the line of that directory with nothing but lines of that directory
\* between the two, so it comes before the line of the directory's next
\* sibling; the directories of one directory are in str order, and so are its
\* files.
C22_DepthFirstSorted ==
    /\ \A k \in 1..Len(walked) :
         \A n \in 1..(Len(WalkedPath(k)) - 1) :
           \E j \in 1..(k - 1) :
             /\ WalkedPath(j) = SubSeq(WalkedPath(k), 1, n)
             /\ ~walked[j].is_file
             /\ \A between \in (j + 1)..k :
                    ProperAncestor(WalkedPath(j), WalkedPath(between))
    /\ \A j, k \in 1..Len(walked) :
         (j < k /\ SameDirectory(j, k) /\ walked[j].is_file = walked[k].is_file)
             => StrLess(walked[j].rel, walked[k].rel)

\* An export that listed lib with m.py and lib/test below it before the
\* sibling test, and the files a.py and b.md of the root.
C22_Witness ==
    /\ exported.done
    /\ \E a, b, l, m, x, t \in 1..Len(walked) :
         /\ a < b /\ b < l /\ l < m /\ m < x /\ x < t
         /\ WalkedPath(a) = << NameA >>
         /\ WalkedPath(b) = << NameB >>
         /\ WalkedPath(l) = << NameLib >>
         /\ WalkedPath(m) = << NameLib, NameM >>
         /\ WalkedPath(x) = << NameLib, NameTest, NameX >>
         /\ WalkedPath(t) = << NameTest >>

-----------------------------------------------------------------------------
(* Events the handlers drop.                                               *)

\* C23: when a handler is given an event and does not dispatch it (a
\* directory event, an event a filter rejects, or one inside the debounce
\* window), last_run and last_changed_file stay as they were and no callback
\* is started.
C23_DroppedEventChangesNothing ==
    [][ (Len(queue') < Len(queue) /\ ~handled'.dispatched) =>
            /\ last_run' = last_run
            /\ last_changed_file' = last_changed_file
            /\ rebuilds' = rebuilds
            /\ obs_pc' = obs_pc
            /\ disp' = disp ]_vars

\* An event that passed the filters has been dropped by the debounce, some
\* ticks after the dispatch that opened the window, and last_run is still the
\* time of that dispatch.
C23_Witness ==
    /\ handled.any
    /\ handled.passed
    /\ ~handled.dispatched
    /\ disp.any
    /\ last_run = disp.last
    /\ last_run < now
    /\ queue = << >>

-----------------------------------------------------------------------------
(* The two handlers on one event (SpecHandlers).                           *)

\* Events both handlers are given: files in lower and upper case, with
\* another extension, the destination, and a directory.
HandlerEvents ==
    { Event(<< NameA >>, FALSE), Event(<< NameB >>, FALSE),
      Event(<< NameLib, NameM >>, FALSE),
      Event(<< NameLib, NameTest, NameX >>, FALSE),
      Event(<< NameLib >>, TRUE) }

\* The single extension both handlers are built with.
HandlerExtensions == { ExtPy, ExtMd, ExtUpper, ExtNoDot }

\* on_any_event of either handler: the filters, then the debounce.
LibDispatches(e) == PassesLib(e) /\ ~Debounced(now)
CliDispatches(e) == PassesCli(e) /\ ~Debounced(now)

\* Both handlers, built with the same arguments and reading the same clock,
\* are given the event e.
CompareHandlers(e) ==
    /\ call.op = "none"
    /\ call' = [NoCallYet EXCEPT
                  !.op = IF e.is_directory THEN "directory_event" ELSE "file_event",
                  !.filename = e.src_path,
                  !.rel_path = EventRelPath(e)]
    /\ result' = [value |-> LibDispatches(e), more |-> CliDispatches(e)]
    /\ UNCHANGED << fsVars, critVars, cliVars, tuiVars, treeVars, combineVars, watchVars >>

\* Any single extension, any ignore and include lists, with or without a tree
\* list, and a last dispatch long ago or two ticks ago.
InitHandlers ==
    /\ files = [p \in {} |-> "text"]
    /\ dirs = {}
    /\ extensions \in {<< ext >> : ext \in HandlerExtensions}
    /\ ignore_names \in IgnoreNameChoices
    /\ ignore_paths \in IgnorePathChoices
    /\ include_names \in IncludeChoices
    /\ tree_file = NoFile
    /\ out_disk = NoOutput
    /\ NothingDone
    /\ wiring = "lib"
    /\ use_tree \in BOOLEAN
    /\ filelist \in {NoList, ListOf(<< >>), ListOf(<< NameA >>)}
    /\ last_run \in {0, StartTime - 2}
    /\ last_changed_file = None
    /\ now = StartTime
    /\ queue = << >>
    /\ obs_pc = "idle"
    /\ rebuilds = 0
    /\ handled = NotHandled
    /\ disp = NotDispatched
    /\ failures = 0

NextHandlers == \E e \in HandlerEvents : CompareHandlers(e)

SpecHandlers == InitHandlers /\ [][NextHandlers]_vars

\* C24 as stated: the handler of utils/watcher.py and the handler of
\* setup_watch_mode dispatch the same events and drop the same events.
C24_SameDecision ==
    call.op \in {"file_event", "directory_event"} => result.value = result.more

-----------------------------------------------------------------------------
(* Command line and tree file.                                             *)

\* A run of main in the use-tree mode.
UseTreeRun ==
    cli.ran /\ ~Falsy(cli.argv.use_tree) /\ Falsy(cli.argv.export_tree)

\* What parse_tree_file returned to that run.
TreeValues == parse_tree_file(cli.tree_before)

\* A flag takes the value of the command line when one was given, the value
\* of the tree file otherwise, and without either it counts as false when no
\* prompt asked for it.
FlagPrecedence(given, from_tree, taken) ==
    IF given # "None" THEN taken = given
    ELSE IF from_tree # "None" THEN taken = from_tree
    ELSE ~cli.prompted => (taken = "None" /\ ~FlagArgument(taken))

\* A str of the configuration takes the value of the command line when given
\* says that there is one, and the value of the tree file otherwise.
StrPrecedence(given, from_cli, from_tree, taken) ==
    IF given THEN taken = from_cli
    ELSE IF ~Falsy(from_tree) THEN taken = from_tree
    ELSE ~cli.prompted => Falsy(taken)

ExtAndFlagsPrecedence ==
    /\ IF ~NoExtension(cli.argv.ext) THEN cli.args.ext = cli.argv.ext
       ELSE IF TreeValues.extensions # << >>
            THEN cli.args.ext = GivenExt(ListArg(TreeValues.extensions))
       ELSE ~cli.prompted => NoExtension(cli.args.ext)
    /\ FlagPrecedence(cli.argv.strip_comments, TreeValues.remove_comments,
                      cli.args.strip_comments)
    /\ FlagPrecedence(cli.argv.remove_docstrings, TreeValues.remove_docstrings,
                      cli.args.remove_docstrings)

-----------------------------------------------------------------------------
(* tui/bundler.py: create_bundle                                           *)

\* The absolute path of a file or directory below the watched directory.
AbsPath(path) == SourceDir \o << "/" >> \o RelPath(path)

\* os.path.relpath(abs_path, source_dir) of a path below source_dir (the TUI
\* hands create_bundle the paths of the nodes of its tree, which are).
RelativeTo(abs_path, source_dir) ==
    IF StartsWith(abs_path, source_dir \o << "/" >>)
    THEN Slice(abs_path, Len(source_dir) + 2, Len(abs_path))
    ELSE abs_path

\* open(abs_path, "r", encoding="utf-8").readlines() returns: the file is
\* there, can be opened and is UTF-8.
ReadsAsText(abs_path) ==
    \E p \in DOMAIN files : AbsPath(p) = abs_path /\ files[p] = "text"

\* outfile.write(f"{comment_prefix} Files combined from: {source_dir}\n\n")
BundleHeader(extension, source_dir) ==
    Chunk("bundle_header", extension, source_dir, FALSE, FALSE)

\* The body of the loop over file_paths: acc is (what was written,
\* processed_count).  extension is the argument of create_bundle.
create_bundle_step(acc, abs_path, source_dir, extension, rc, rd) ==
    LET rel_path == RelativeTo(abs_path, source_dir) IN
    IF ~ReadsAsText(abs_path) THEN acc
    ELSE [chunks |-> acc.chunks
                     \o << Chunk("begin", extension, rel_path, FALSE, FALSE),
                           Chunk("lines", extension, rel_path, rc, rd),
                           Chunk("end", extension, rel_path, FALSE, FALSE) >>,
          processed_count |-> acc.processed_count + 1]

RECURSIVE create_bundle_loop(_, _, _, _, _, _, _)
create_bundle_loop(acc, file_paths, i, source_dir, extension, rc, rd) ==
    IF i > Len(file_paths) THEN acc
    ELSE create_bundle_loop(
             create_bundle_step(acc, file_paths[i], source_dir, extension, rc, rd),
             file_paths, i + 1, source_dir, extension, rc, rd)

\* What create_bundle leaves in output_file, and what it returns.
create_bundle(old, source_dir, file_paths, extension, rc, rd) ==
    create_bundle_loop(
        [chunks |-> OpenForWrite(old) \o << BundleHeader(extension, source_dir) >>,
         processed_count |-> 0],
        file_paths, 1, source_dir, extension, rc, rd)

-----------------------------------------------------------------------------
(* tui/widgets/directory_tree.py: DirectoryTree                            *)

PatStar ==
    << "*" >>
PatPy ==
    << "*", ".", "p", "y" >>

\* fnmatch.fnmatch(name, pat) on POSIX (normcase changes nothing) for a
\* pattern with at most one "*" and no "?" or "[": "*" stands for any
\* characters, "/" included, and the other characters stand for themselves.
fnmatch(name, pat) ==
    LET star == Find(pat, PatStar) IN
    IF star = 0 THEN name = pat
    ELSE /\ Len(name) >= Len(pat) - 1
         /\ StartsWith(name, Slice(pat, 1, star - 1))
         /\ EndsWith(name, Slice(pat, star + 1, Len(pat)))

AnyPattern(name, patterns) ==
    \E k \in 1..Len(patterns) : fnmatch(name, patterns[k])

\* populate_tree skips the path: its name starts with "." or matches a hide
\* pattern, or it is a directory whose rel_path + "/" matches one.
Hidden(path, hide_patterns) ==
    \/ StartsWith(path[Len(path)], << "." >>)
    \/ AnyPattern(path[Len(path)], hide_patterns)
    \/ path \in dirs /\ AnyPattern(RelPath(path) \o << "/" >>, hide_patterns)

\* populate_tree(parent, directory): the paths that get a node, directory
\* being << >> for root_directory.
RECURSIVE populate_tree(_, _)
populate_tree(directory, hide_patterns) ==
    UNION { IF Hidden(directory \o << name >>, hide_patterns) THEN {}
            ELSE { directory \o << name >> }
                 \cup IF directory \o << name >> \in dirs
                      THEN populate_tree(directory \o << name >>, hide_patterns)
                      ELSE {}
            : name \in ListDir(directory) }

\* node.data of root_node and of the nodes populate_tree adds, by data["path"].
NewNodes(hide_patterns) ==
    LET shown == populate_tree(<< >>, hide_patterns) IN
    [s \in {SourceDir} \cup {AbsPath(p) : p \in shown} |->
        [is_dir |-> s = SourceDir \/ \E p \in shown : AbsPath(p) = s /\ p \in dirs,
         selected |-> FALSE]]

\* self.file_nodes: the nodes of files, by path.
file_nodes(nodes) == {s \in DOMAIN nodes : ~nodes[s].is_dir}

\* The nodes below the node of a directory, at any depth.
Below(nodes, dir) == {s \in DOMAIN nodes : StartsWith(s, dir \o << "/" >>)}

\* self.post_message(self.FileSelected(self.selected_files.copy()))
PostFileSelected(selected_files) == Append(messages, selected_files)

\* setup_initial_selection(patterns)
setup_initial_selection(t, patterns) ==
    LET matching == {s \in file_nodes(t.nodes) :
                        AnyPattern(RelativeTo(s, SourceDir), patterns)} IN
    [t EXCEPT !.nodes = [s \in DOMAIN @ |->
                            IF s \in matching THEN [@[s] EXCEPT !.selected = TRUE]
                            ELSE @[s]],
              !.selected_files = @ \cup matching]

\* A variant of RestoreSelection that takes every path of the saved selection,
\* with or without a node.
RestoreSelectionUnchecked(before, nodes) == before

\* refresh_tree, "Restore selection state": the paths of the saved selection
\* that are in self.file_nodes.
RestoreSelection(before, nodes) == before \cap file_nodes(nodes)

\* refresh_tree
refresh_tree(t, hide_patterns) ==
    LET repopulated == NewNodes(hide_patterns)
        restored == RestoreSelection(t.selected_files, repopulated) IN
    [t EXCEPT !.nodes = [s \in DOMAIN repopulated |->
                            IF s \in restored /\ s \in file_nodes(repopulated)
                            THEN [repopulated[s] EXCEPT !.selected = TRUE]
                            ELSE repopulated[s]],
              !.selected_files = restored]

\* _any_child_selected(node) of the node of a directory.
any_child_selected(nodes, dir) ==
    \E s \in Below(nodes, dir) : ~nodes[s].is_dir /\ nodes[s].selected

\* _select_node_children(node, select) and the flag of the directory itself.
select_node_children(t, dir, select) ==
    LET below == Below(t.nodes, dir) IN
    [t EXCEPT !.nodes = [s \in DOMAIN @ |->
                            IF s \in below \cup {dir}
                            THEN [@[s] EXCEPT !.selected = select]
                            ELSE @[s]],
              !.selected_files =
                  IF select THEN @ \cup (below \cap file_nodes(t.nodes))
                  ELSE @ \ (below \cap file_nodes(t.nodes))]

\* toggle_selection(node) of a node of the tree.
toggle_selection(t, path) ==
    IF t.nodes[path].is_dir
    THEN select_node_children(t, path, ~any_child_selected(t.nodes, path))
    ELSE LET is_selected == ~t.nodes[path].selected IN
         [t EXCEPT !.nodes[path].selected = is_selected,
                   !.selected_files = IF is_selected THEN @ \cup {path}
                                      ELSE @ \ {path}]

\* select_all_matching_files
select_all_matching_files(t) ==
    [t EXCEPT !.nodes = [s \in DOMAIN @ |->
                            IF ~@[s].is_dir THEN [@[s] EXCEPT !.selected = TRUE]
                            ELSE @[s]],
              !.selected_files = @ \cup file_nodes(t.nodes)]

\* A variant of deselect_all_files without self.selected_files.clear().
deselect_all_files_flags_only(t) ==
    [t EXCEPT !.nodes = [s \in DOMAIN @ |->
                            IF ~@[s].is_dir THEN [@[s] EXCEPT !.selected = FALSE]
                            ELSE @[s]]]

\* deselect_all_files
deselect_all_files(t) ==
    [t EXCEPT !.nodes = [s \in DOMAIN @ |->
                            IF ~@[s].is_dir THEN [@[s] EXCEPT !.selected = FALSE]
                            ELSE @[s]],
              !.selected_files = {}]

-----------------------------------------------------------------------------
(* tui/app.py: CodeBundlerApp                                              *)

\* The most handlers the user or the watcher sets off in one session of the
\* TUI, and the most changes of the watched directory during it.
MaxOps == 2
MaxChanges == 1

OtherDir ==
    << "/", "w" >>

\* The files that are there or appear while the TUI runs.
TuiUniverse ==
    { << NameB >>, << NameLib, NameM >> }

watch_directory_params ==
    { "source_dir", "extensions", "ignore_names", "ignore_paths", "include_names",
      "filelist", "use_tree", "callback" }
SetupFileWatcherKeywords ==
    { "source_dir", "extension", "ignore_names", "ignore_paths", "include_names",
      "callback" }

\* setup_file_watcher: self.observer after the try / except around
\* watch_directory(...).
setup_file_watcher ==
    IF AcceptsKeywords(SetupFileWatcherKeywords, watch_directory_params)
    THEN "Observer" ELSE "None"

\* str(Path(changed_file).resolve()) of a relative path without "..", where
\* nothing is a symbolic link: the path below the working directory.
Resolve(working_dir, changed_file) == working_dir \o << "/" >> \o changed_file

\* list(self.selected_files): the elements of a set in the order its hash
\* table holds them.  The order stays as long as the set object does; the
\* elements alone do not determine it (it follows the hash seed of the process
\* and the order in which colliding elements were added).
SetOrder(s) ==
    { f \in [1..Cardinality(s) -> s] : \A i, j \in 1..Cardinality(s) :
                                           i # j => f[i] # f[j] }

\* The record of a handler that is not rebuild_bundle or on_file_changed.
Handled(op) ==
    [tui EXCEPT !.op = op, !.ops = @ + 1, !.changed_file = << >>,
                !.rebuild = FALSE, !.created = FALSE]

\* A variant of NothingSelected in which rebuild_bundle always goes on.
NothingSelectedIgnored(selected_files) == FALSE

\* rebuild_bundle: `if not self.selected_files: ... return`
NothingSelected(selected_files) == selected_files = {}

\* DirectoryTree.on_mount, then CodeBundlerApp.on_mount.
Mount ==
    /\ ~directory_tree.mounted
    /\ LET populated == [directory_tree EXCEPT !.mounted = TRUE,
                                               !.nodes = NewNodes(app.hide_patterns)]
       IN /\ directory_tree' =
                 IF app.select_patterns = << >> THEN populated
                 ELSE setup_initial_selection(populated, app.select_patterns)
          /\ messages' = IF app.select_patterns = << >> THEN messages
                         ELSE PostFileSelected(directory_tree'.selected_files)
    /\ app' = [app EXCEPT !.observer = setup_file_watcher]
    /\ workers' = IF app.confirm_selection THEN workers ELSE workers + 1
    /\ tui' = [tui EXCEPT !.op = "on_mount"]
    /\ UNCHANGED << fsVars, critVars, treeVars, combineVars, watchVars, callVars,
                    cliVars >>

\* on_tree_node_selected / on_key " ": toggle_selection of a node of the tree.
ToggleSelection(path) ==
    /\ directory_tree.mounted
    /\ tui.ops < MaxOps
    /\ path \in DOMAIN directory_tree.nodes
    /\ directory_tree' = toggle_selection(directory_tree, path)
    /\ messages' = PostFileSelected(directory_tree'.selected_files)
    /\ tui' = Handled(IF directory_tree.nodes[path].is_dir THEN "toggle_directory"
                      ELSE "toggle_file")
    /\ UNCHANGED << fsVars, critVars, treeVars, combineVars, watchVars, callVars,
                    cliVars, app, workers >>

\* action_select_all
ActionSelectAll ==
    /\ directory_tree.mounted
    /\ tui.ops < MaxOps
    /\ directory_tree' = select_all_matching_files(directory_tree)
    /\ messages' = PostFileSelected(directory_tree'.selected_files)
    /\ tui' = Handled("select_all")
    /\ UNCHANGED << fsVars, critVars, treeVars, combineVars, watchVars, callVars,
                    cliVars, app, workers >>

\* action_deselect_all
ActionDeselectAll ==
    /\ directory_tree.mounted
    /\ tui.ops < MaxOps
    /\ directory_tree' = deselect_all_files(directory_tree)
    /\ messages' = PostFileSelected(directory_tree'.selected_files)
    /\ tui' = Handled("deselect_all")
    /\ UNCHANGED << fsVars, critVars, treeVars, combineVars, watchVars, callVars,
                    cliVars, app, workers >>

\* action_rebuild: self.rebuild_bundle() starts a worker.
ActionRebuild ==
    /\ directory_tree.mounted
    /\ tui.ops < MaxOps
    /\ workers' = workers + 1
    /\ tui' = Handled("action_rebuild")
    /\ UNCHANGED << fsVars, critVars, treeVars, combineVars, watchVars, callVars,
                    cliVars, directory_tree, app, messages >>

\* on_file_changed(changed_file), with the path CodeBundlerHandler hands its
\* callback: rel_path, relative to the watched directory.
OnFileChanged(changed_file) ==
    /\ directory_tree.mounted
    /\ tui.ops < MaxOps
    /\ directory_tree' = refresh_tree(directory_tree, app.hide_patterns)
    /\ messages' = PostFileSelected(directory_tree'.selected_files)
    /\ LET file_path == Resolve(app.cwd, changed_file)
           rebuild == file_path \in app.selected_files
       IN /\ workers' = IF rebuild THEN workers + 1 ELSE workers
          /\ tui' = [Handled("on_file_changed") EXCEPT
                         !.changed_file = changed_file, !.rebuild = rebuild]
    /\ UNCHANGED << fsVars, critVars, treeVars, combineVars, watchVars, callVars,
                    cliVars, app >>

\* on_file_selected(event) for the oldest message posted.
OnFileSelected ==
    /\ messages # << >>
    /\ \E order \in SetOrder(Head(messages)) :
         app' = [app EXCEPT !.selected_files = Head(messages), !.order = order]
    /\ messages' = Tail(messages)
    /\ tui' = [tui EXCEPT !.op = "on_file_selected", !.changed_file = << >>,
                          !.rebuild = FALSE, !.created = FALSE]
    /\ UNCHANGED << fsVars, critVars, treeVars, combineVars, watchVars, callVars,
                    cliVars, directory_tree, workers >>

\* rebuild_bundle, run by a worker.
RebuildBundle ==
    /\ workers > 0
    /\ workers' = workers - 1
    /\ IF NothingSelected(app.selected_files)
       THEN /\ tui' = [tui EXCEPT !.op = "rebuild_bundle", !.changed_file = << >>,
                                  !.rebuild = FALSE, !.created = FALSE]
            /\ UNCHANGED << out_disk, combine_args, prev_run >>
       ELSE LET file_paths == app.order
                r == create_bundle(out_disk.chunks, SourceDir, file_paths,
                                   app.extension, FALSE, FALSE)
                args == [called |-> TRUE, exts |-> << app.extension >>,
                           flist |-> Sorted(app.selected_files),
                           remove_comments |-> FALSE, remove_docstrings |-> FALSE,
                           files |-> files]
            IN /\ out_disk' = [exists |-> TRUE, chunks |-> r.chunks]
               /\ combine_args' = args
               /\ prev_run' = [same |-> (combine_args = args), out |-> out_disk]
               /\ tui' = [tui EXCEPT !.op = "rebuild_bundle",
                                     !.changed_file = << >>,
                                     !.rebuild = FALSE, !.created = TRUE]
    /\ UNCHANGED << fsVars, critVars, treeVars, processed_count, watchVars, callVars,
                    cliVars, directory_tree, app, messages >>

\* A file appears below the watched directory.
CreateFile(p) ==
    /\ directory_tree.mounted
    /\ tui.changes < MaxChanges
    /\ p \notin DOMAIN files
    /\ files' = [q \in DOMAIN files \cup {p} |-> IF q = p THEN "text" ELSE files[q]]
    /\ dirs' = dirs \cup Ancestors({p})
    /\ tui' = [tui EXCEPT !.changes = @ + 1]
    /\ UNCHANGED << critVars, treeVars, combineVars, watchVars, callVars, cliVars,
                    directory_tree, app, messages, workers >>

\* A file below the watched directory is deleted.
DeleteFile(p) ==
    /\ directory_tree.mounted
    /\ tui.changes < MaxChanges
    /\ p \in DOMAIN files
    /\ files' = [q \in DOMAIN files \ {p} |-> files[q]]
    /\ tui' = [tui EXCEPT !.changes = @ + 1]
    /\ UNCHANGED << dirs, critVars, treeVars, combineVars, watchVars, callVars,
                    cliVars, directory_tree, app, messages, workers >>

\* The TUI over a directory of readable files, started with or without
\* patterns, from the watched directory or from another one.
InitTui ==
    /\ \E S \in { TuiUniverse, TuiUniverse \ {<< NameLib, NameM >>} } :
         /\ files = [p \in S |-> "text"]
         /\ dirs = Ancestors(S)
    /\ extensions = << >>
    /\ ignore_names = << >>
    /\ ignore_paths = << >>
    /\ include_names = << >>
    /\ tree_file = NoFile
    /\ out_disk = OldOutput
    /\ call = NoCallYet
    /\ result = [value |-> FALSE, more |-> FALSE]
    /\ cli = CliNotRun
    /\ walked = << >>
    /\ file_count = 0
    /\ edits = 0
    /\ parsed = NotParsed
    /\ exported = NotExported
    /\ combine_args = NoCall
    /\ processed_count = 0
    /\ prev_run = [same |-> FALSE, out |-> NoOutput]
    /\ WatchOff
    /\ directory_tree = [mounted |-> FALSE, nodes |-> << >>, selected_files |-> {}]
    /\ \E working_dir \in { SourceDir, OtherDir },
          hide \in { << >>, << KwLib >> },
          select \in { << >>, << PatPy >> },
          confirm \in BOOLEAN :
         app = [cwd |-> working_dir, extension |-> ExtPy, hide_patterns |-> hide,
                select_patterns |-> select, confirm_selection |-> confirm,
                selected_files |-> {}, order |-> << >>, observer |-> "None"]
    /\ messages = << >>
    /\ workers = 0
    /\ tui = [op |-> "none", ops |-> 0, changes |-> 0, changed_file |-> << >>,
              rebuild |-> FALSE, created |-> FALSE]

NextTui ==
    \/ Mount
    \/ \E path \in {SourceDir} \cup {AbsPath(p) : p \in TuiUniverse \cup Ancestors(TuiUniverse)} :
         ToggleSelection(path)
    \/ ActionSelectAll
    \/ ActionDeselectAll
    \/ ActionRebuild
    \/ \E p \in TuiUniverse : OnFileChanged(RelPath(p))
    \/ OnFileSelected
    \/ RebuildBundle
    \/ \E p \in TuiUniverse : CreateFile(p)
    \/ \E p \in TuiUniverse : DeleteFile(p)

SpecTui == InitTui /\ [][NextTui]_vars

\* The same, where a message posted is handled and a worker started runs.
SpecTuiFair ==
    SpecTui /\ WF_vars(OnFileSelected) /\ WF_vars(RebuildBundle)

-----------------------------------------------------------------------------
(* Bundles.                                                                *)

\* C21: in every bundle written, by combine_from_filelist or by create_bundle
\* of the TUI, the BEGIN and END markers of a file carry the same relative
\* path and the comment prefix of the file's own extension, and the file's
\* lines are transformed with the file's own extension.
C21_OwnExtension ==
    \A k \in 1..Len(out_disk.chunks) :
        LET c == out_disk.chunks[k] IN
        /\ c.kind \in {"begin", "lines", "end"} => c.ext = SplitExt(c.path)
        /\ c.kind = "begin" =>
               /\ k + 2 <= Len(out_disk.chunks)
               /\ out_disk.chunks[k + 1].kind = "lines"
               /\ out_disk.chunks[k + 2].kind = "end"
               /\ out_disk.chunks[k + 1].path = c.path
               /\ out_disk.chunks[k + 2].path = c.path

-----------------------------------------------------------------------------
(* The selection of the tree.                                              *)

\* The paths of the file nodes whose data["selected"] is true.
FlaggedFiles ==
    {s \in file_nodes(directory_tree.nodes) : directory_tree.nodes[s].selected}

StillShown(s) ==
    \E p \in DOMAIN files :
        /\ AbsPath(p) = s
        /\ \A k \in 1..Len(p) : ~Hidden(SubSeq(p, 1, k), app.hide_patterns)

\* A step of on_file_changed, which calls refresh_tree.
RefreshStep == tui'.op = "on_file_changed" /\ tui'.ops = tui.ops + 1

-----------------------------------------------------------------------------
(* Rebuilds of the TUI.                                                    *)

\* C28: when the watcher tells the TUI that a file changed, the TUI starts a
\* rebuild exactly if that file, a path below the watched directory, is in
\* the selection of the app, whatever the working directory is.
C28_RebuildsIffSelected ==
    tui.op = "on_file_changed" =>
        (tui.rebuild <=>
            SourceDir \o << "/" >> \o tui.changed_file \in app.selected_files)


\* A step in which a worker runs rebuild_bundle.
RebuildStep == workers' = workers - 1

\* C29: a rebuild that finds no file selected leaves the output file as it
\* is and does not call create_bundle.
C29_EmptySelectionWritesNothing ==
    [][(RebuildStep /\ app.selected_files = {}) =>
          (out_disk' = out_disk /\ ~tui'.created /\ combine_args' = combine_args)]_vars

\* rebuild_bundle has run with nothing selected, and the output file an
\* earlier program left is still what it was.
C29_Witness ==
    /\ tui.op = "rebuild_bundle"
    /\ ~tui.created
    /\ app.selected_files = {}
    /\ out_disk = OldOutput
    /\ ~combine_args.called

\* C30: the order of the files in a bundle follows from the selection alone:
\* a rebuild with the same set of selected files as the rebuild before it, on
\* the same files, writes the same output, in whatever order the files were
\* selected.
C30_SameSelectionSameBundle ==
    (tui.op = "rebuild_bundle" /\ tui.created /\ prev_run.same) =>
        out_disk.chunks = prev_run.out.chunks
=============================================================================
